---- MODULE Spec2Model ----
(***************************************************************************)
(* Scheduling coordinator of VacationMonitor: the lease lock               *)
(* (DistributedLockService) kept in a shared document store and the        *)
(* polling scheduler (SchedulerService) that runs on several instances.    *)
(*                                                                         *)
(* Every await of the source is a step boundary: an asynchronous method is *)
(* a call step followed by one step per I/O operation that settles, and    *)
(* steps of different instances interleave freely.  Times are milliseconds *)
(* since the start of the run; an ISO timestamp string is modelled by the  *)
(* integer it parses back to (a Date keeps whole milliseconds, so          *)
(* toISOString / new Date(string) lose nothing).                           *)
(*                                                                         *)
(* An activation is one run of an asynchronous method with its locals.     *)
(* Each instance has a main activation, on which start(), stop() and the   *)
(* ticks that follow one another run; instance 1 has a second activation   *)
(* for a timer callback that fires while a tick is still in progress.      *)
(***************************************************************************)
EXTENDS Integers, FiniteSets, Sequences, Bags, TLC

\* ------------------------------------------------------------- bounds
MaxAdvances == 3       \* clock steps of a run
MaxFaults == 2         \* I/O failures injected in a run of SpecFaulty
MaxRenewals == 3       \* renewals of a round trip
NumSearches == 2       \* work items in the store
MaxManualRuns == 1     \* triggerManualRun() calls of a run

\* ---------------------------------------------------------- constants
lockDurationSeconds == 360
maxConsecutiveErrors == 10
BatchLimit == 50
MsPerHour == 60 * 60 * 1000

\* Two service instances; the instance id (instance-<start time>-<random>) is
\* modelled by the instance's number.
Inst == {1, 2}
\* Activations: the main one of each instance (numbered as the instance) and
\* a second one of instance 1.
Thread == Inst \cup {3}
Owner(t) == IF t \in Inst THEN t ELSE 1
Search == 1..NumSearches
ClockStep == (lockDurationSeconds * 1000) \div 2
MaxTime == MaxAdvances * ClockStep
Null == -1

VARIABLES
  now,        \* wall clock shared by the instances (ms)
  dbReady,    \* dbReady[i]: getJobsContainer() of instance i returns a container
  faults,     \* I/O failures the environment may still inject (< 0: any number)
  store,      \* lock documents of the jobs container: {} or one document
  lockHeld,   \* this.lockHeld of instance i
  pc,         \* position of activation t inside a lock method
  callNow,    \* the local `now` of the lock method in progress
  lockDoc,    \* the local `lockDoc` of the lock method in progress ({} = null)
  hasLock,    \* value returned by the last acquireLock() of activation t
  outcome,    \* branch by which the last lock method of activation t returned
  ops,        \* store operations issued by the current / last lock method
  sched,      \* sched[i]: the SchedulerService object of instance i and the
              \* locals of its start() / stop() / tick() in progress
              \* (startThrew: the last start() ended by throwing;
              \* timers: the interval timers armed and not cleared;
              \* skippedTick: the last tick() returned at its
              \* isRunning check);
              \* sched[3]: the locals of the second activation of instance 1
  orphans,    \* updateSearch calls still in flight after their tick's
              \* Promise.all rejected
  searches,   \* the searches container: searches[s] is the document of item s
  queue,      \* bag of the job descriptors handed to the queue
  trip,       \* script of a round trip (SpecRoundTrip only)
  manual      \* the triggerManualRun() call in progress, or the last one
              \* with its result

envVars == <<now, dbReady, faults>>
lockVars == <<store, lockHeld, pc, callNow, lockDoc, hasLock, outcome, ops>>
schedVars == <<sched, orphans, searches, queue>>
clientVars == <<trip, manual>>
vars == <<now, dbReady, faults, store, lockHeld, pc, callNow, lockDoc, hasLock,
          outcome, ops, sched, orphans, searches, queue, trip, manual>>

\* ------------------------------------------------------------ environment

\* Results an I/O operation may settle with: failure only while the
\* environment has failures left to inject.
IoResults == IF faults = 0 THEN {TRUE} ELSE BOOLEAN
Io(ok) == faults' = IF ok \/ faults < 0 THEN faults ELSE faults - 1

\* ------------------------------------------------- DistributedLockService

\* lockExpiry > now
LockValid_inclusive(doc, t) == doc.leaseExpiresAt >= t
LockValid_never(doc, t) == FALSE
LockValid_always(doc, t) == TRUE
LockValid(doc, t) == doc.leaseExpiresAt > t

\* lockDoc.leasedBy === this.instanceId
IsOurs_any(doc, i) == TRUE
IsOurs(doc, i) == doc.leasedBy = i

\* expiresAt = new Date(now.getTime() + this.lockDurationSeconds * 1000)
ExpiresAt_seconds(t) == t + lockDurationSeconds
ExpiresAt(t) == t + lockDurationSeconds * 1000

TheDoc(s) == CHOOSE d \in s : TRUE

\* createdAt: lockDoc?.createdAt || now.toISOString()
CreatedAt(old, t) == IF old = {} THEN t ELSE TheDoc(old).createdAt

NewLockDoc(i, t, old) ==
  [leasedBy |-> i, leaseExpiresAt |-> ExpiresAt(t), lastRenewed |-> t,
   createdAt |-> CreatedAt(old, t)]

\* lockDoc.leaseExpiresAt = expiresAt; lockDoc.lastRenewed = now
RenewedDoc_noHolder(doc, t) ==
  [doc EXCEPT !.leasedBy = 0, !.leaseExpiresAt = ExpiresAt(t), !.lastRenewed = t]
RenewedDoc_fromExpiry(doc, t) ==
  [doc EXCEPT !.leaseExpiresAt = doc.leaseExpiresAt + lockDurationSeconds * 1000,
              !.lastRenewed = t]
RenewedDoc(doc, t) ==
  [doc EXCEPT !.leaseExpiresAt = ExpiresAt(t), !.lastRenewed = t]

\* container.item(lockId, lockPartition).read(): the document, or {} for 404
ReadLock == store

\* A lock method of instance i returns by branch o.
Return(i, o) ==
  /\ pc' = [pc EXCEPT ![i] = "idle"]
  /\ callNow' = [callNow EXCEPT ![i] = 0]
  /\ lockDoc' = [lockDoc EXCEPT ![i] = {}]
  /\ outcome' = [outcome EXCEPT ![i] = o]

\* What acquireLock() returns when the store cannot be used: `return true`
FailOpen_closed == FALSE
FailOpen == TRUE

\* acquireLock(), up to its first await; container: getJobsContainer()
\* returns one (the caller's own variables are the caller's to set)
acquireLockWith(i, container) ==
  /\ pc[i] = "idle"
  /\ ops' = [ops EXCEPT ![i] = 0]
  /\ IF ~container
       THEN /\ Return(i, "acq_nocontainer")
            /\ hasLock' = [hasLock EXCEPT ![i] = FailOpen]
            /\ UNCHANGED <<store, lockHeld>>
       ELSE /\ pc' = [pc EXCEPT ![i] = "acq_read"]
            /\ callNow' = [callNow EXCEPT ![i] = now]
            /\ UNCHANGED <<store, lockHeld, lockDoc, hasLock, outcome>>

acquireLock(i) == acquireLockWith(i, dbReady[Owner(i)])

\* acquireLock(): the read settles
acquireLockRead(i) ==
  /\ pc[i] = "acq_read"
  /\ ops' = [ops EXCEPT ![i] = 1]
  /\ UNCHANGED <<now, dbReady, store, schedVars, clientVars>>
  /\ \E readOk \in IoResults :
       /\ Io(readOk)
       /\ IF ~readOk
            THEN \* error other than 404: outer catch, return true
                 /\ Return(i, "acq_error")
                 /\ hasLock' = [hasLock EXCEPT ![i] = FailOpen]
                 /\ UNCHANGED lockHeld
            ELSE LET doc == ReadLock IN
                 IF doc # {} /\ LockValid(TheDoc(doc), callNow[i])
                   THEN IF IsOurs(TheDoc(doc), Owner(i))
                          THEN /\ Return(i, "acq_already")
                               /\ lockHeld' = [lockHeld EXCEPT ![Owner(i)] = TRUE]
                               /\ hasLock' = [hasLock EXCEPT ![i] = TRUE]
                          ELSE /\ Return(i, "acq_other")
                               /\ lockHeld' = [lockHeld EXCEPT ![Owner(i)] = FALSE]
                               /\ hasLock' = [hasLock EXCEPT ![i] = FALSE]
                   ELSE /\ pc' = [pc EXCEPT ![i] = "acq_upsert"]
                        /\ lockDoc' = [lockDoc EXCEPT ![i] = doc]
                        /\ UNCHANGED <<lockHeld, callNow, hasLock, outcome>>

\* acquireLock(): the upsert settles
acquireLockUpsert_failOpen(i) ==
  /\ pc[i] = "acq_upsert"
  /\ ops' = [ops EXCEPT ![i] = 2]
  /\ UNCHANGED <<now, dbReady, schedVars, clientVars>>
  /\ \E writeOk \in IoResults :
       /\ Io(writeOk)
       /\ IF writeOk
            THEN /\ store' = {NewLockDoc(Owner(i), callNow[i], lockDoc[i])}
                 /\ Return(i, "acq_acquired")
                 /\ lockHeld' = [lockHeld EXCEPT ![Owner(i)] = TRUE]
                 /\ hasLock' = [hasLock EXCEPT ![i] = TRUE]
            ELSE /\ UNCHANGED <<store, lockHeld>>
                 /\ Return(i, "acq_error")
                 /\ hasLock' = [hasLock EXCEPT ![i] = FailOpen]
acquireLockUpsert(i) ==
  /\ pc[i] = "acq_upsert"
  /\ ops' = [ops EXCEPT ![i] = 2]
  /\ UNCHANGED <<now, dbReady, schedVars, clientVars>>
  /\ \E writeOk \in IoResults :
       /\ Io(writeOk)
       /\ IF writeOk
            THEN /\ store' = {NewLockDoc(Owner(i), callNow[i], lockDoc[i])}
                 /\ Return(i, "acq_acquired")
                 /\ lockHeld' = [lockHeld EXCEPT ![Owner(i)] = TRUE]
                 /\ hasLock' = [hasLock EXCEPT ![i] = TRUE]
            ELSE /\ UNCHANGED store
                 /\ Return(i, "acq_failed")
                 /\ lockHeld' = [lockHeld EXCEPT ![Owner(i)] = FALSE]
                 /\ hasLock' = [hasLock EXCEPT ![i] = FALSE]

\* renewLock(), up to its first await
renewLock_unguarded(i) ==
  /\ pc[i] = "idle"
  /\ ops' = [ops EXCEPT ![i] = 0]
  /\ UNCHANGED <<store, hasLock>>
  /\ IF ~dbReady[Owner(i)]
       THEN /\ Return(i, "ren_nocontainer")
            /\ lockHeld' = [lockHeld EXCEPT ![Owner(i)] = FALSE]
       ELSE /\ pc' = [pc EXCEPT ![i] = "ren_read"]
            /\ callNow' = [callNow EXCEPT ![i] = now]
            /\ UNCHANGED <<lockHeld, lockDoc, outcome>>
renewLock(i) ==
  /\ pc[i] = "idle"
  /\ ops' = [ops EXCEPT ![i] = 0]
  /\ UNCHANGED <<store, hasLock>>
  /\ IF ~lockHeld[Owner(i)]
       THEN /\ Return(i, "ren_notheld")
            /\ UNCHANGED lockHeld
       ELSE IF ~dbReady[Owner(i)]
         THEN /\ Return(i, "ren_nocontainer")
              /\ lockHeld' = [lockHeld EXCEPT ![Owner(i)] = FALSE]
         ELSE /\ pc' = [pc EXCEPT ![i] = "ren_read"]
              /\ callNow' = [callNow EXCEPT ![i] = now]
              /\ UNCHANGED <<lockHeld, lockDoc, outcome>>

\* renewLock(): the read settles
renewLockRead(i) ==
  /\ pc[i] = "ren_read"
  /\ ops' = [ops EXCEPT ![i] = 1]
  /\ UNCHANGED <<now, dbReady, store, hasLock, schedVars, clientVars>>
  /\ \E readOk \in IoResults :
       /\ Io(readOk)
       /\ IF ~readOk
            THEN /\ Return(i, "ren_failed")
                 /\ lockHeld' = [lockHeld EXCEPT ![Owner(i)] = FALSE]
            ELSE LET doc == ReadLock IN
                 IF doc = {}
                   THEN /\ Return(i, "ren_notfound")
                        /\ lockHeld' = [lockHeld EXCEPT ![Owner(i)] = FALSE]
                   ELSE IF IsOurs(TheDoc(doc), Owner(i))
                     THEN /\ pc' = [pc EXCEPT ![i] = "ren_upsert"]
                          /\ lockDoc' = [lockDoc EXCEPT ![i] =
                                           {RenewedDoc(TheDoc(doc), callNow[i])}]
                          /\ UNCHANGED <<lockHeld, callNow, outcome>>
                     ELSE /\ Return(i, "ren_lost")
                          /\ lockHeld' = [lockHeld EXCEPT ![Owner(i)] = FALSE]

\* renewLock(): the upsert settles
renewLockUpsert(i) ==
  /\ pc[i] = "ren_upsert"
  /\ ops' = [ops EXCEPT ![i] = 2]
  /\ UNCHANGED <<now, dbReady, hasLock, schedVars, clientVars>>
  /\ \E writeOk \in IoResults :
       /\ Io(writeOk)
       /\ IF writeOk
            THEN /\ store' = lockDoc[i]
                 /\ Return(i, "ren_renewed")
                 /\ UNCHANGED lockHeld
            ELSE /\ UNCHANGED store
                 /\ Return(i, "ren_failed")
                 /\ lockHeld' = [lockHeld EXCEPT ![Owner(i)] = FALSE]

\* releaseLock(), up to its first await
releaseLock(i) ==
  /\ pc[i] = "idle"
  /\ ops' = [ops EXCEPT ![i] = 0]
  /\ UNCHANGED <<store, hasLock, lockHeld>>
  /\ IF ~lockHeld[Owner(i)]
       THEN Return(i, "rel_notheld")
       ELSE IF ~dbReady[Owner(i)]
         THEN Return(i, "rel_nocontainer")
         ELSE /\ pc' = [pc EXCEPT ![i] = "rel_read"]
              /\ UNCHANGED <<callNow, lockDoc, outcome>>

\* releaseLock(): the read settles
releaseLockRead(i) ==
  /\ pc[i] = "rel_read"
  /\ ops' = [ops EXCEPT ![i] = 1]
  /\ UNCHANGED <<now, dbReady, store, hasLock, lockHeld, schedVars, clientVars>>
  /\ \E readOk \in IoResults :
       /\ Io(readOk)
       /\ IF ~readOk \/ ReadLock = {}
            THEN \* the read throws, or finds nothing and lockDoc.leasedBy
                 \* throws: caught, nothing else happens
                 Return(i, "rel_failed")
            ELSE IF IsOurs(TheDoc(ReadLock), Owner(i))
              THEN /\ pc' = [pc EXCEPT ![i] = "rel_delete"]
                   /\ UNCHANGED <<callNow, lockDoc, outcome>>
              ELSE Return(i, "rel_other")

\* releaseLock(): the delete settles (it names the document by id and
\* partition only; deleting a missing document fails)
releaseLockDelete(i) ==
  /\ pc[i] = "rel_delete"
  /\ ops' = [ops EXCEPT ![i] = 2]
  /\ UNCHANGED <<now, dbReady, hasLock, schedVars, clientVars>>
  /\ \E deleteOk \in IoResults :
       /\ Io(deleteOk)
       /\ IF deleteOk /\ store # {}
            THEN /\ store' = {}
                 /\ Return(i, "rel_released")
                 /\ lockHeld' = [lockHeld EXCEPT ![Owner(i)] = FALSE]
            ELSE /\ UNCHANGED <<store, lockHeld>>
                 /\ Return(i, "rel_failed")

\* A client of the lock service calls one of its methods.
CallAcquire(i) == acquireLock(i) /\ UNCHANGED <<envVars, schedVars, clientVars>>
CallRenew(i) == renewLock(i) /\ UNCHANGED <<envVars, schedVars, clientVars>>
CallRelease(i) == releaseLock(i) /\ UNCHANGED <<envVars, schedVars, clientVars>>

\* Time passes.
Advance ==
  /\ now + ClockStep <= MaxTime
  /\ now' = now + ClockStep
  /\ UNCHANGED <<dbReady, faults, lockVars, schedVars, clientVars>>

\* cosmosDBService.initialize() of instance i completes.
cosmosInitialize(i) ==
  /\ ~dbReady[i]
  /\ dbReady' = [dbReady EXCEPT ![i] = TRUE]
  /\ UNCHANGED <<now, faults, lockVars, schedVars, clientVars>>

\* ------------------------------------------------------- SchedulerService

\* this.pollIntervalMs (SCHEDULER_INTERVAL_MINUTES is unset: 5 minutes)
pollIntervalMs == 5 * 60 * 1000

Min(a, b) == IF a <= b THEN a ELSE b

\* getDueSearches(limit): SELECT TOP @limit ... WHERE c.schedule.enabled = true
\* AND c.schedule.nextRun <= @now ORDER BY c.schedule.nextRun ASC.  The sets
\* of item ids the query may return (ties in nextRun are in any order): the
\* items before the cut-off value and as many of those at the cut-off value
\* as fill the limit.
Due(t) ==
  {s \in DOMAIN searches : searches[s].enabled /\ searches[s].nextRun <= t}
Before(t, v) == {s \in Due(t) : searches[s].nextRun < v}
UpTo(t, v) == {s \in Due(t) : searches[s].nextRun <= v}
getDueSearches_all(t, limit) == {Due(t)}
getDueSearches(t, limit) ==
  IF Cardinality(Due(t)) <= limit
    THEN {Due(t)}
    ELSE LET v == CHOOSE w \in {searches[s].nextRun : s \in Due(t)} :
                    /\ Cardinality(Before(t, w)) < limit
                    /\ Cardinality(UpTo(t, w)) >= limit
         IN {Before(t, v) \cup T :
               T \in {X \in SUBSET (UpTo(t, v) \ Before(t, v)) :
                        Cardinality(X) = limit - Cardinality(Before(t, v))}}

\* jobs = dueSearches.map(search => ({searchId, userId, scheduleType: 'scheduled'})).
\* dueAt is bookkeeping of the model, not a field of the descriptor: the
\* schedule.nextRun of the document the job was made from (its due window).
Job(d) == [searchId |-> d.id, userId |-> d.userId, scheduleType |-> "scheduled",
           dueAt |-> d.nextRun]

\* One updateSearch call of a tick: the patch {schedule.nextRun, lastRunAt}
\* for the item of document d, computed at time t.
Update_keepNextRun(d, t) ==
  [id |-> d.id, nextRun |-> d.nextRun, lastRunAt |-> t]
Update_fromNextRun(d, t) ==
  [id |-> d.id, nextRun |-> d.nextRun + d.intervalHours * MsPerHour,
   lastRunAt |-> t]
Update(d, t) ==
  [id |-> d.id, nextRun |-> t + d.intervalHours * MsPerHour, lastRunAt |-> t]

\* updateSearch(id, userId, patch) applied to the searches container
updateSearch(u) ==
  [searches EXCEPT ![u.id] = [@ EXCEPT !.nextRun = u.nextRun,
                                       !.lastRunAt = u.lastRunAt]]

\* The scheduler as activation t sees it: the fields of its instance's
\* SchedulerService object and its own locals.
View(t) ==
  IF t \in Inst
    THEN sched[t]
    ELSE [sched[Owner(t)] EXCEPT
            !.spc = sched[t].spc, !.tpc = sched[t].tpc,
            !.tickStartTime = sched[t].tickStartTime,
            !.queryNow = sched[t].queryNow,
            !.dueSearches = sched[t].dueSearches,
            !.tickNow = sched[t].tickNow, !.updating = sched[t].updating]

\* Activation t leaves the scheduler as sc: the fields go to the object of
\* its instance, the locals stay with the activation.
Put(t, sc) ==
  IF t \in Inst
    THEN [sched EXCEPT ![t] = sc]
    ELSE [sched EXCEPT
            ![Owner(t)] = [@ EXCEPT !.isRunning = sc.isRunning,
                                    !.intervalId = sc.intervalId,
                                    !.consecutiveErrors = sc.consecutiveErrors,
                                    !.lastTickTime = sc.lastTickTime,
                                    !.busOpen = sc.busOpen,
                                    !.timers = sc.timers,
                                    !.skippedTick = sc.skippedTick],
            ![t] = [@ EXCEPT !.spc = sc.spc, !.tpc = sc.tpc,
                             !.tickStartTime = sc.tickStartTime,
                             !.queryNow = sc.queryNow,
                             !.dueSearches = sc.dueSearches,
                             !.tickNow = sc.tickNow,
                             !.updating = sc.updating]]

\* The locals of a tick that it no longer reads are dropped.
ClearTick(sc) ==
  [sc EXCEPT !.queryNow = 0, !.dueSearches = {}, !.tickNow = 0, !.updating = {}]

\* The promise of tick() settles; a start() that awaited it arms the timer
\* (this.intervalId = setInterval(...)).
TickEnd(sc) ==
  [ClearTick(sc) EXCEPT
     !.tpc = "none",
     !.tickStartTime = 0,
     !.spc = IF sc.spc = "tick" THEN "none" ELSE sc.spc,
     !.intervalId = IF sc.spc = "tick" THEN TRUE ELSE sc.intervalId,
     !.timers = IF sc.spc = "tick" THEN @ + 1 ELSE @]

\* tick(), up to its first await, run as activation i on the scheduler sc;
\* container: getJobsContainer() returns one by now
tick_noCheck(i, sc, container) ==
  /\ sched' = Put(i, [sc EXCEPT !.tpc = "acquire", !.tickStartTime = now,
                                !.skippedTick = FALSE])
  /\ acquireLockWith(i, container)
tick(i, sc, container) ==
  IF ~sc.isRunning
    THEN /\ sched' = Put(i, [TickEnd(sc) EXCEPT !.skippedTick = TRUE])
         /\ UNCHANGED lockVars
    ELSE /\ sched' = Put(i, [sc EXCEPT !.tpc = "acquire",
                                       !.tickStartTime = now,
                                       !.skippedTick = FALSE])
         /\ acquireLockWith(i, container)

\* tick(): the catch block, run as activation i on the scheduler sc
TickCatch_noDisable(i, sc) ==
  /\ sched' = Put(i, TickEnd([sc EXCEPT !.consecutiveErrors = @ + 1]))
  /\ UNCHANGED lockVars
TickCatch_rethrow(i, sc) ==
  /\ sched' = Put(i, [TickEnd([sc EXCEPT !.consecutiveErrors = @ + 1,
                                         !.spc = "none"])
                        EXCEPT !.isRunning = IF sc.spc = "tick" THEN FALSE ELSE @,
                               !.startThrew = (sc.spc = "tick")])
  /\ UNCHANGED lockVars
TickCatch_renew(i, sc) ==
  /\ sched' = Put(i, [ClearTick(sc) EXCEPT !.consecutiveErrors = @ + 1,
                                           !.tpc = "renew"])
  /\ renewLock(i)
TickCatch(i, sc) ==
  LET n == sc.consecutiveErrors + 1 IN
  IF n >= maxConsecutiveErrors
    THEN /\ sched' = Put(i, [ClearTick(sc) EXCEPT !.consecutiveErrors = n,
                                                  !.isRunning = FALSE,
                                                  !.intervalId = FALSE,
                                                  !.timers = IF sc.intervalId
                                                               THEN @ - 1 ELSE @,
                                                  !.tpc = "release"])
         /\ releaseLock(i)
    ELSE /\ sched' = Put(i, TickEnd([sc EXCEPT !.consecutiveErrors = n]))
         /\ UNCHANGED lockVars

\* A tick is in progress on activation t.
InTick(t) == sched[t].tpc # "none"

Quiet(i) == sched[i].spc = "none" /\ sched[i].tpc = "none" /\ pc[i] = "idle"

\* start(), up to its first await.  A call that returns at once may come at
\* any time; one that goes on to initialize comes while nothing else of the
\* instance is in progress.
StartCall_always(i) ==
  /\ Quiet(i)
  /\ sched' = [sched EXCEPT ![i].spc = "init", ![i].startThrew = FALSE]
  /\ UNCHANGED <<envVars, lockVars, orphans, searches, queue, clientVars>>
StartCall(i) ==
  /\ IF sched[i].isRunning \/ ~sched[i].enabled
       THEN UNCHANGED sched
       ELSE /\ Quiet(i)
            /\ sched' = [sched EXCEPT ![i].spc = "init", ![i].startThrew = FALSE]
  /\ UNCHANGED <<envVars, lockVars, orphans, searches, queue, clientVars>>

\* start(): the three initialize() calls settle (r: all three succeeded, or
\* the one that failed); on success the first tick begins, on failure the
\* catch block runs and start() throws
StartInit_noCatch(i) ==
  /\ sched[i].spc = "init"
  /\ UNCHANGED <<now, orphans, searches, queue, clientVars>>
  /\ \E r \in {"ok"} \cup (IF faults = 0 THEN {} ELSE {"cosmos", "bus", "lock"}) :
       /\ Io(r = "ok")
       /\ dbReady' = [dbReady EXCEPT ![i] = IF r = "cosmos" THEN @ ELSE TRUE]
       /\ IF r = "ok"
            THEN tick(i, [sched[i] EXCEPT !.isRunning = TRUE,
                                          !.consecutiveErrors = 0,
                                          !.busOpen = TRUE,
                                          !.spc = "tick"], TRUE)
            ELSE /\ sched' = [sched EXCEPT
                               ![i].isRunning = TRUE,
                               ![i].busOpen = IF r = "lock" THEN TRUE ELSE @,
                               ![i].spc = "none",
                               ![i].startThrew = TRUE]
                 /\ UNCHANGED lockVars
StartInit(i) ==
  /\ sched[i].spc = "init"
  /\ UNCHANGED <<now, orphans, searches, queue, clientVars>>
  /\ \E r \in {"ok"} \cup (IF faults = 0 THEN {} ELSE {"cosmos", "bus", "lock"}) :
       /\ Io(r = "ok")
       /\ dbReady' = [dbReady EXCEPT ![i] = IF r = "cosmos" THEN @ ELSE TRUE]
       /\ IF r = "ok"
            THEN tick(i, [sched[i] EXCEPT !.isRunning = TRUE,
                                          !.consecutiveErrors = 0,
                                          !.busOpen = TRUE,
                                          !.spc = "tick"], TRUE)
            ELSE /\ sched' = [sched EXCEPT
                               ![i].isRunning = FALSE,
                               ![i].busOpen = IF r = "lock" THEN TRUE ELSE @,
                               ![i].spc = "none",
                               ![i].startThrew = TRUE]
                 /\ UNCHANGED lockVars

\* stop(), up to its first await
Stop_noRelease(i) ==
  /\ Quiet(i)
  /\ UNCHANGED <<envVars, lockVars, orphans, searches, queue, clientVars>>
  /\ IF ~sched[i].isRunning
       THEN UNCHANGED sched
       ELSE sched' = [sched EXCEPT ![i].isRunning = FALSE,
                                   ![i].intervalId = FALSE,
                                   ![i].timers = IF sched[i].intervalId
                                                   THEN @ - 1 ELSE @,
                                   ![i].spc = "stop"]
Stop(i) ==
  /\ Quiet(i)
  /\ UNCHANGED <<envVars, orphans, searches, queue, clientVars>>
  /\ IF ~sched[i].isRunning
       THEN UNCHANGED <<sched, lockVars>>
       ELSE /\ sched' = [sched EXCEPT ![i].isRunning = FALSE,
                                      ![i].intervalId = FALSE,
                                      ![i].timers = IF sched[i].intervalId
                                                      THEN @ - 1 ELSE @,
                                      ![i].spc = "stop"]
            /\ releaseLock(i)

\* stop(): releaseLock() has returned and jobQueueService.close() settles
StopClose(i) ==
  /\ sched[i].spc = "stop"
  /\ pc[i] = "idle"
  /\ UNCHANGED <<now, dbReady, lockVars, orphans, searches, queue, clientVars>>
  /\ \E closeOk \in IoResults :
       /\ Io(closeOk)
       /\ sched' = Put(i, [View(i) EXCEPT
                      !.spc = "none",
                      !.busOpen = IF closeOk THEN FALSE ELSE @])

\* The interval timer of instance i fires between two ticks: this.tick()
TimerFire(i) ==
  /\ Quiet(i)
  /\ sched[i].timers > 0
  /\ tick(i, sched[i], dbReady[i])
  /\ UNCHANGED <<envVars, orphans, searches, queue, clientVars>>

\* The interval timer fires again, pollIntervalMs after it started the tick
\* that is still in progress on the main activation: this.tick() runs as
\* activation t.
TimerFireDuringTick(t) ==
  /\ t \notin Inst
  /\ sched[t].tpc = "none" /\ pc[t] = "idle"
  /\ sched[Owner(t)].timers > 0
  /\ sched[Owner(t)].tpc # "none"
  /\ now >= sched[Owner(t)].tickStartTime + pollIntervalMs
  /\ tick(t, View(t), dbReady[Owner(t)])
  /\ UNCHANGED <<envVars, orphans, searches, queue, clientVars>>

\* tick(): acquireLock() has returned
TickAcquired_noCheck(i) ==
  /\ sched[i].tpc = "acquire"
  /\ pc[i] = "idle"
  /\ UNCHANGED <<envVars, lockVars, orphans, searches, queue, clientVars>>
  /\ sched' = Put(i, [View(i) EXCEPT !.tpc = "query", !.queryNow = now])
TickAcquired(i) ==
  /\ sched[i].tpc = "acquire"
  /\ pc[i] = "idle"
  /\ UNCHANGED <<envVars, lockVars, orphans, searches, queue, clientVars>>
  /\ IF ~hasLock[i]
       THEN sched' = Put(i, TickEnd(View(i)))
       ELSE sched' = Put(i, [View(i) EXCEPT !.tpc = "query", !.queryNow = now])

\* tick(): no search is due; the scheduler object and the tick when the
\* branch has run up to its renewLock()
NoneDue_keepErrors(sc, t) ==
  [ClearTick(sc) EXCEPT !.lastTickTime = t, !.tpc = "renew"]
NoneDue(sc, t) ==
  [ClearTick(sc) EXCEPT !.lastTickTime = t, !.consecutiveErrors = 0,
                        !.tpc = "renew"]

\* tick(): getDueSearches(50) settles
TickQueryDone(i) ==
  /\ sched[i].tpc = "query"
  /\ UNCHANGED <<now, dbReady, orphans, searches, queue, clientVars>>
  /\ \E queryOk \in IoResults :
       /\ Io(queryOk)
       /\ IF ~queryOk
            THEN TickCatch(i, View(i))
            ELSE \E D \in getDueSearches(sched[i].queryNow, BatchLimit) :
                   IF D = {}
                     THEN /\ sched' = Put(i, NoneDue(View(i), now))
                          /\ renewLock(i)
                     ELSE /\ sched' = Put(i, [View(i) EXCEPT
                                           !.dueSearches = {searches[s] : s \in D},
                                           !.tpc = "enqueue"])
                          /\ UNCHANGED lockVars

\* tick(): enqueueBatch(jobs) settles; on success the updateSearch calls are
\* issued
TickEnqueued_updateAnyway(i) ==
  /\ sched[i].tpc = "enqueue"
  /\ UNCHANGED <<now, dbReady, orphans, searches, clientVars>>
  /\ \E enqueueOk \in IoResults :
       /\ Io(enqueueOk)
       /\ queue' = IF enqueueOk
                     THEN queue (+) SetToBag({Job(d) : d \in sched[i].dueSearches})
                     ELSE queue
       /\ sched' = Put(i, [View(i) EXCEPT
                      !.tickNow = now,
                      !.updating = {d.id : d \in sched[i].dueSearches},
                      !.tpc = "update"])
       /\ UNCHANGED lockVars
TickEnqueued(i) ==
  /\ sched[i].tpc = "enqueue"
  /\ UNCHANGED <<now, dbReady, orphans, searches, clientVars>>
  /\ \E enqueueOk \in IoResults :
       /\ Io(enqueueOk)
       /\ IF ~enqueueOk
            THEN TickCatch(i, View(i)) /\ UNCHANGED queue
            ELSE /\ queue' = queue (+) SetToBag({Job(d) : d \in sched[i].dueSearches})
                 /\ sched' = Put(i, [View(i) EXCEPT
                                !.tickNow = now,
                                !.updating = {d.id : d \in sched[i].dueSearches},
                                !.tpc = "update"])
                 /\ UNCHANGED lockVars

\* tick(): Promise.all has resolved; the scheduler object and the tick when
\* the code has run up to its renewLock()
TickDone(sc, t) ==
  [ClearTick(sc) EXCEPT !.consecutiveErrors = 0, !.lastTickTime = t,
                        !.tpc = "renew"]

\* tick(): one updateSearch call settles.  The last success resolves
\* Promise.all and the tick goes on to renew; the first failure rejects it
\* while the other calls stay in flight.
TickUpdateSettle(i, s) ==
  /\ sched[i].tpc = "update"
  /\ s \in sched[i].updating
  /\ UNCHANGED <<now, dbReady, queue, clientVars>>
  /\ LET d == CHOOSE x \in sched[i].dueSearches : x.id = s
         rest == sched[i].updating \ {s}
     IN \E updateOk \in IoResults :
          /\ Io(updateOk)
          /\ IF updateOk
               THEN /\ searches' = updateSearch(Update(d, sched[i].tickNow))
                    /\ UNCHANGED orphans
                    /\ IF rest = {}
                         THEN /\ sched' = Put(i, TickDone(View(i), now))
                              /\ renewLock(i)
                         ELSE /\ sched' = Put(i, [View(i) EXCEPT !.updating = rest])
                              /\ UNCHANGED lockVars
               ELSE /\ UNCHANGED searches
                    /\ orphans' = orphans \cup
                         {Update(x, sched[i].tickNow) :
                            x \in {y \in sched[i].dueSearches : y.id \in rest}}
                    /\ TickCatch(i, View(i))

\* tick(): every updateSearch call of the tick has succeeded and Promise.all
\* resolves.  The same as TickUpdateSettle for each item in turn; on a
\* reliable store with nobody else reading the items, the order in which the
\* updates land cannot be observed.
TickUpdateAll(i) ==
  /\ sched[i].tpc = "update"
  /\ faults = 0
  /\ UNCHANGED <<envVars, orphans, queue, clientVars>>
  /\ searches' = [s \in DOMAIN searches |->
                    IF s \in sched[i].updating
                      THEN updateSearch(Update(searches[s], sched[i].tickNow))[s]
                      ELSE searches[s]]
  /\ sched' = Put(i, TickDone(View(i), now))
  /\ renewLock(i)

\* An updateSearch call whose tick has already failed settles.
OrphanSettle(u) ==
  /\ u \in orphans
  /\ orphans' = orphans \ {u}
  /\ UNCHANGED <<now, dbReady, lockVars, sched, queue, clientVars>>
  /\ \E updateOk \in IoResults :
       /\ Io(updateOk)
       /\ searches' = IF updateOk THEN updateSearch(u) ELSE searches

\* tick(): the final renewLock() / releaseLock() has returned
TickSettle(i) ==
  /\ sched[i].tpc \in {"renew", "release"}
  /\ pc[i] = "idle"
  /\ sched' = Put(i, TickEnd(View(i)))
  /\ UNCHANGED <<envVars, lockVars, orphans, searches, queue, clientVars>>

\* ------------------------------------------------------ triggerManualRun

User == {1, 2}

NoManualRun ==
  [mpc |-> "none", searchId |-> 0, userId |-> 0, result |-> "none", runs |-> 0]

\* cosmosDBService.getSearch(searchId, userId): the item with that id owned
\* by that user, or {} for null
getSearch(id, userId) ==
  IF id \in DOMAIN searches /\ searches[id].userId = userId
    THEN {searches[id]}
    ELSE {}

\* The descriptor handed to enqueueJob
ManualJob_scheduled(id, userId) ==
  [searchId |-> id, userId |-> userId, scheduleType |-> "scheduled"]
ManualJob(id, userId) ==
  [searchId |-> id, userId |-> userId, scheduleType |-> "manual"]

\* The call returns (result "ok") or throws (any other result).
ManualReturn(r) == manual' = [manual EXCEPT !.mpc = "none", !.result = r]

\* triggerManualRun(searchId, userId), up to its first await
triggerManualRun(id, userId) ==
  /\ manual.mpc = "none"
  /\ manual.runs < MaxManualRuns
  /\ manual' = [mpc |-> "get", searchId |-> id, userId |-> userId,
                result |-> "none", runs |-> manual.runs + 1]
  /\ UNCHANGED <<envVars, lockVars, schedVars, trip>>

\* triggerManualRun(): getSearch settles
ManualGetSearch_noCheck ==
  /\ manual.mpc = "get"
  /\ UNCHANGED <<now, dbReady, lockVars, schedVars, trip>>
  /\ \E readOk \in IoResults :
       /\ Io(readOk)
       /\ IF ~readOk
            THEN ManualReturn("store_error")
            ELSE manual' = [manual EXCEPT !.mpc = "enqueue"]
ManualGetSearch ==
  /\ manual.mpc = "get"
  /\ UNCHANGED <<now, dbReady, lockVars, schedVars, trip>>
  /\ \E readOk \in IoResults :
       /\ Io(readOk)
       /\ IF ~readOk
            THEN ManualReturn("store_error")
            ELSE IF getSearch(manual.searchId, manual.userId) = {}
              THEN ManualReturn("not_found")
              ELSE manual' = [manual EXCEPT !.mpc = "enqueue"]

\* triggerManualRun(): enqueueJob settles
ManualEnqueued ==
  /\ manual.mpc = "enqueue"
  /\ UNCHANGED <<now, dbReady, lockVars, sched, orphans, searches, trip>>
  /\ \E enqueueOk \in IoResults :
       /\ Io(enqueueOk)
       /\ IF enqueueOk
            THEN /\ queue' = queue (+)
                       SetToBag({ManualJob(manual.searchId, manual.userId)})
                 /\ ManualReturn("ok")
            ELSE /\ UNCHANGED queue
                 /\ ManualReturn("queue_error")

\* ------------------------------------------------------ round-trip script

\* Instance 1 calls acquireLock(), then renewLock() trip.renewals times,
\* then releaseLock(), each after the one before has returned.
TripAcquire ==
  /\ trip.step = 0
  /\ acquireLock(1)
  /\ trip' = [trip EXCEPT !.step = 1]
  /\ UNCHANGED <<envVars, schedVars, manual>>

TripRenew ==
  /\ trip.step \in 1..trip.renewals
  /\ renewLock(1)
  /\ trip' = [trip EXCEPT !.step = @ + 1]
  /\ UNCHANGED <<envVars, schedVars, manual>>

TripRelease ==
  /\ trip.step = trip.renewals + 1
  /\ releaseLock(1)
  /\ trip' = [trip EXCEPT !.step = @ + 1]
  /\ UNCHANGED <<envVars, schedVars, manual>>

\* -------------------------------------------------------- specifications

NewScheduler(en) ==
  [enabled |-> en, isRunning |-> FALSE, intervalId |-> FALSE,
   consecutiveErrors |-> 0, lastTickTime |-> Null, busOpen |-> FALSE,
   startThrew |-> FALSE, timers |-> 0, skippedTick |-> FALSE,
   spc |-> "none", tpc |-> "none", tickStartTime |-> 0,
   queryNow |-> 0, dueSearches |-> {}, tickNow |-> 0, updating |-> {}]

NewSearch(s, en, due) ==
  [id |-> s, userId |-> 1, enabled |-> en, intervalHours |-> 6 * s,
   nextRun |-> due, lastRunAt |-> Null]

InitLock ==
  /\ now = 0
  /\ store = {}
  /\ lockHeld = [i \in Inst |-> FALSE]
  /\ pc = [t \in Thread |-> "idle"]
  /\ callNow = [t \in Thread |-> 0]
  /\ lockDoc = [t \in Thread |-> {}]
  /\ hasLock = [t \in Thread |-> FALSE]
  /\ outcome = [t \in Thread |-> "none"]
  /\ ops = [t \in Thread |-> 0]
  /\ orphans = {}
  /\ queue = EmptyBag
  /\ manual = NoManualRun

\* The lock service under arbitrary clients and an unreliable store.
Init ==
  /\ InitLock
  /\ dbReady = [i \in Inst |-> FALSE]
  /\ faults = -1
  /\ sched = [t \in Thread |-> NewScheduler(TRUE)]
  /\ searches = [s \in Search |-> NewSearch(s, TRUE, 0)]
  /\ trip = [renewals |-> 0, step |-> 0]

AcquireIo(i) == acquireLockRead(i) \/ acquireLockUpsert(i)
RenewIo(i) == renewLockRead(i) \/ renewLockUpsert(i)
ReleaseIo(i) == releaseLockRead(i) \/ releaseLockDelete(i)
LockIo(i) == AcquireIo(i) \/ RenewIo(i) \/ ReleaseIo(i)

Next ==
  \/ Advance
  \/ \E i \in Inst : cosmosInitialize(i)
  \/ \E i \in Inst : CallAcquire(i)
  \/ \E i \in Inst : CallRenew(i)
  \/ \E i \in Inst : CallRelease(i)
  \/ \E i \in Inst : LockIo(i)

Spec == Init /\ [][Next]_vars

\* One instance on a reliable store runs the round trip.
InitRoundTrip ==
  /\ InitLock
  /\ dbReady = [i \in Inst |-> TRUE]
  /\ faults = 0
  /\ sched = [t \in Thread |-> NewScheduler(TRUE)]
  /\ searches = [s \in Search |-> NewSearch(s, TRUE, 0)]
  /\ \E n \in 0..MaxRenewals : trip = [renewals |-> n, step |-> 0]

NextRoundTrip ==
  \/ Advance
  \/ TripAcquire
  \/ TripRenew
  \/ TripRelease
  \/ LockIo(1)

SpecRoundTrip == InitRoundTrip /\ [][NextRoundTrip]_vars

\* The schedulers of the instances on a reliable store and queue.
InitSched ==
  /\ InitLock
  /\ dbReady = [i \in Inst |-> FALSE]
  /\ faults = 0
  /\ sched = [t \in Thread |-> NewScheduler(TRUE)]
  /\ searches = [s \in Search |-> NewSearch(s, TRUE, (s - 1) * ClockStep)]
  /\ trip = [renewals |-> 0, step |-> 0]

\* The steps of a tick run as activation t
TickStep(t) ==
  \/ TickAcquired(t)
  \/ TickQueryDone(t)
  \/ TickEnqueued(t)
  \/ \E s \in DOMAIN searches : TickUpdateSettle(t, s)
  \/ TickSettle(t)
  \/ AcquireIo(t)
  \/ RenewIo(t)

SchedStep(i) ==
  \/ StartCall(i)
  \/ StartInit(i)
  \/ TimerFire(i)
  \/ TickStep(i)

NextSched ==
  \/ Advance
  \/ \E i \in Inst : SchedStep(i)

SpecSched == InitSched /\ [][NextSched]_vars

\* The scheduler of instance 1 alone, started and stopped at will, with up to
\* MaxFaults failures of the store and the queue.
InitFaulty ==
  /\ InitLock
  /\ dbReady = [i \in Inst |-> FALSE]
  /\ faults = MaxFaults
  /\ sched = [t \in Thread |-> NewScheduler(TRUE)]
  /\ searches = [s \in Search |-> NewSearch(s, TRUE, (s - 1) * ClockStep)]
  /\ trip = [renewals |-> 0, step |-> 0]

NextFaulty ==
  \/ Advance
  \/ SchedStep(1)
  \/ Stop(1)
  \/ StopClose(1)
  \/ ReleaseIo(1)
  \/ \E u \in orphans : OrphanSettle(u)

SpecFaulty == InitFaulty /\ [][NextFaulty]_vars

\* The scheduler of instance 1 alone on a reliable store and queue, slow
\* enough for the timer to fire during a tick.
NextOverlap ==
  \/ Advance
  \/ SchedStep(1)
  \/ TimerFireDuringTick(3)
  \/ TickStep(3)

SpecOverlap == InitSched /\ [][NextOverlap]_vars

\* The scheduler of instance 1 alone, started once, during an outage: any I/O
\* operation may fail, any number of times.  The outage is short (the clock
\* stands still) and one item is in the store.
InitOutage ==
  /\ InitLock
  /\ dbReady = [i \in Inst |-> FALSE]
  /\ faults = -1
  /\ sched = [t \in Thread |-> NewScheduler(TRUE)]
  /\ searches = [s \in {1} |-> NewSearch(s, TRUE, 0)]
  /\ trip = [renewals |-> 0, step |-> 0]

NextOutage ==
  \/ (~sched[1].busOpen /\ StartCall(1))
  \/ StartInit(1)
  \/ TimerFire(1)
  \/ TickStep(1)
  \/ ReleaseIo(1)

SpecOutage == InitOutage /\ [][NextOutage]_vars

\* Manual runs requested while the scheduler of instance 1 runs, with up to
\* MaxFaults failures of the store and the queue.
NextManual ==
  \/ Advance
  \/ SchedStep(1)
  \/ (\E u \in orphans : OrphanSettle(u))
  \/ (\E id \in {0} \cup Search, userId \in User : triggerManualRun(id, userId))
  \/ ManualGetSearch
  \/ ManualEnqueued

SpecManual == InitFaulty /\ [][NextManual]_vars

\* The scheduler of instance 1 alone on a reliable store and queue, with more
\* items than one query returns; item s first falls due at (s - 1) ms.  The
\* scheduler is started and its timer, its store and its queue keep answering.
PressureItems == 1..(BatchLimit + NumSearches)

InitPressure ==
  /\ InitLock
  /\ dbReady = [i \in Inst |-> FALSE]
  /\ faults = 0
  /\ sched = [t \in Thread |-> NewScheduler(TRUE)]
  /\ searches = [s \in PressureItems |-> NewSearch(s, TRUE, s - 1)]
  /\ trip = [renewals |-> 0, step |-> 0]

PressureStep ==
  \/ StartCall(1)
  \/ StartInit(1)
  \/ TimerFire(1)
  \/ TickAcquired(1)
  \/ TickQueryDone(1)
  \/ TickEnqueued(1)
  \/ TickUpdateAll(1)
  \/ TickSettle(1)
  \/ AcquireIo(1)
  \/ RenewIo(1)

NextPressure ==
  \/ Advance
  \/ PressureStep

SpecPressure ==
  InitPressure /\ [][NextPressure]_vars /\ WF_vars(PressureStep)

\* The holder of the lease ticks on time next to another instance that calls
\* acquireLock() whenever it likes, on a reliable store and queue.  The clock
\* moves by the margin between the lease duration and the poll interval; it
\* starts to move when the timer of instance 1 is armed and it does not move
\* past an instant at which the timer is due.
MaxLeaseSteps == 7
Margin == lockDurationSeconds * 1000 - pollIntervalMs

\* setInterval(() => this.tick(), this.pollIntervalMs), armed at time 0: the
\* callback is due at each multiple of pollIntervalMs, once the tick before
\* it has settled (a tick that went through has stamped lastTickTime with a
\* time not before its start; a skipped tick leaves no trace and may be run
\* again at the same instant).
TimerDue(i) ==
  /\ sched[i].intervalId
  /\ now > 0
  /\ now % pollIntervalMs = 0
  /\ sched[i].lastTickTime < now
  /\ Quiet(i)

TimerFireOnTime(i) == TimerDue(i) /\ TimerFire(i)

Elapse ==
  /\ sched[1].intervalId
  /\ ~TimerDue(1)
  /\ now + Margin <= MaxLeaseSteps * Margin
  /\ now' = now + Margin
  /\ UNCHANGED <<dbReady, faults, lockVars, schedVars, clientVars>>

InitLease ==
  /\ InitLock
  /\ dbReady = [i \in Inst |-> FALSE]
  /\ faults = 0
  /\ sched = [t \in Thread |-> NewScheduler(TRUE)]
  /\ searches = [s \in {1} |-> NewSearch(s, TRUE, 0)]
  /\ trip = [renewals |-> 0, step |-> 0]

NextLease ==
  \/ Elapse
  \/ (~sched[1].isRunning /\ StartCall(1))
  \/ StartInit(1)
  \/ TimerFireOnTime(1)
  \/ TickStep(1)
  \/ cosmosInitialize(2)
  \/ CallAcquire(2)
  \/ AcquireIo(2)

SpecLease == InitLease /\ [][NextLease]_vars

\* The scheduler of instance 1 as in SpecFaulty, with SCHEDULER_ENABLED set
\* either way.
InitLifecycle ==
  /\ InitLock
  /\ dbReady = [i \in Inst |-> FALSE]
  /\ faults = MaxFaults
  /\ \E en \in BOOLEAN : sched = [t \in Thread |-> NewScheduler(en)]
  /\ searches = [s \in Search |-> NewSearch(s, TRUE, (s - 1) * ClockStep)]
  /\ trip = [renewals |-> 0, step |-> 0]

SpecLifecycle == InitLifecycle /\ [][NextFaulty]_vars

\* As SpecPressure without the fairness, over items that put every clause of
\* the query to work: item 1 is disabled and the oldest; the others are
\* enabled and fall due one millisecond after another, the last NumSearches
\* of them together, so that the limit cuts through a tie.
InitSelect ==
  /\ InitLock
  /\ dbReady = [i \in Inst |-> FALSE]
  /\ faults = 0
  /\ sched = [t \in Thread |-> NewScheduler(TRUE)]
  /\ searches = [s \in PressureItems |->
                   NewSearch(s, s # 1, IF s = 1 THEN 0
                                       ELSE Min(s - 2, BatchLimit - 1))]
  /\ trip = [renewals |-> 0, step |-> 0]

SpecSelect == InitSelect /\ [][NextPressure]_vars

\* The process of instance i ends without stop(): process.exit() on a forced
\* shutdown, or a crash between two ticks.  Nothing of the instance runs any
\* more, its timer is gone with it and the lease record stays as it is.
Crash(i) ==
  /\ Quiet(i)
  /\ sched[i].isRunning
  /\ sched' = [sched EXCEPT ![i].isRunning = FALSE,
                            ![i].intervalId = FALSE,
                            ![i].timers = 0,
                            ![i].spc = "dead"]
  /\ UNCHANGED <<envVars, lockVars, orphans, searches, queue, clientVars>>

\* Two instances on a reliable store and queue with one item.  Instance 1 is
\* started once (its process has not initialized Cosmos DB yet) and stopped
\* or killed at will; instance 2 is started at will.  What either instance
\* has begun goes on, and an armed timer keeps firing.
InitFailover ==
  /\ InitLock
  /\ dbReady = [i \in Inst |-> FALSE]
  /\ faults = 0
  /\ sched = [t \in Thread |-> NewScheduler(TRUE)]
  /\ searches = [s \in {1} |-> NewSearch(s, TRUE, ClockStep)]
  /\ trip = [renewals |-> 0, step |-> 0]

Progress(i) ==
  \/ StartInit(i)
  \/ TimerFire(i)
  \/ TickStep(i)
  \/ StopClose(i)
  \/ ReleaseIo(i)

NextFailover ==
  \/ Advance
  \/ (~dbReady[1] /\ StartCall(1))
  \/ Stop(1)
  \/ Crash(1)
  \/ Progress(1)
  \/ StartCall(2)
  \/ Progress(2)

SpecFailover ==
  /\ InitFailover
  /\ [][NextFailover]_vars
  /\ WF_vars(Progress(1))
  /\ WF_vars(Progress(2))

\* stop() is called while a start() or a tick of the instance is in
\* progress: stop(), up to its first await, with its awaits run as
\* activation t.
StopDuring(t) ==
  /\ t \notin Inst
  /\ ~Quiet(Owner(t))
  /\ sched[t].spc = "none" /\ sched[t].tpc = "none" /\ pc[t] = "idle"
  /\ UNCHANGED <<envVars, orphans, searches, queue, clientVars>>
  /\ IF ~sched[Owner(t)].isRunning
       THEN UNCHANGED <<sched, lockVars>>
       ELSE /\ sched' = Put(t, [View(t) EXCEPT
                           !.isRunning = FALSE,
                           !.intervalId = FALSE,
                           !.timers = IF sched[Owner(t)].intervalId
                                        THEN @ - 1 ELSE @,
                           !.spc = "stop"])
            /\ releaseLock(t)

\* The scheduler of instance 1 alone on a reliable store and queue, with one
\* item; stop() may come at any time, also while start() or a tick is in
\* progress.  start() is not called again once MaxTimers timers are armed.
MaxTimers == 2

InitInFlight ==
  /\ InitLock
  /\ dbReady = [i \in Inst |-> FALSE]
  /\ faults = 0
  /\ sched = [t \in Thread |-> NewScheduler(TRUE)]
  /\ searches = [s \in {1} |-> NewSearch(s, TRUE, 0)]
  /\ trip = [renewals |-> 0, step |-> 0]

NextInFlight ==
  \/ Advance
  \/ (sched[1].timers < MaxTimers /\ StartCall(1))
  \/ StartInit(1)
  \/ TimerFire(1)
  \/ TickStep(1)
  \/ Stop(1)
  \/ StopDuring(3)
  \/ \E t \in {1, 3} : StopClose(t) \/ ReleaseIo(t)

SpecInFlight == InitInFlight /\ [][NextInFlight]_vars

\* The scheduler of instance 1 alone with one item, during an outage (any
\* I/O operation may fail, any number of times) in which a tick may take a
\* whole poll interval, so that the timer fires during it; the scheduler is
\* started once.
SlowTick ==
  /\ InTick(1)
  /\ now + pollIntervalMs <= MaxTime
  /\ now' = now + pollIntervalMs
  /\ UNCHANGED <<dbReady, faults, lockVars, schedVars, clientVars>>

NextDisable ==
  \/ SlowTick
  \/ (~sched[1].busOpen /\ StartCall(1))
  \/ StartInit(1)
  \/ TimerFire(1)
  \/ TimerFireDuringTick(3)
  \/ \E t \in {1, 3} : TickStep(t) \/ ReleaseIo(t)

SpecDisable == InitOutage /\ [][NextDisable]_vars

\* ================================================================= claims

ReleaseOutcomes == {"rel_notheld", "rel_nocontainer", "rel_failed", "rel_other",
                    "rel_released"}

\* Instance i is idle and its last lock method returned by branch o.
Returned(i, o) == pc[i] = "idle" /\ outcome[i] = o

\* Instance i treats itself as holder after an acquire that returned true.
BelievesHolder(i) == lockHeld[i] /\ hasLock[i]

\* C1: at no instant do two different instances both believe they hold the
\* lease (lockHeld = true after an acquireLock() that returned true).
C1_MutualExclusion ==
  \A i, j \in Inst : (i # j) => ~(BelievesHolder(i) /\ BelievesHolder(j))

\* C2: with several scheduler instances ticking against the same store, an
\* item is handed to the queue by scheduled ticks at most once per due window:
\* no scheduled job descriptor for the same item and the same due window is
\* in the queue twice.
C2_ExactlyOncePerWindow ==
  \A j \in BagToSet(queue) :
    (j.scheduleType = "scheduled") => CopiesIn(j, queue) <= 1

\* The read of acquireLock() by i is about to see a free lease: no record, or
\* a record whose leaseExpiresAt <= the call's now, whoever holds it.
SeesFreeLease(i) ==
  /\ pc[i] = "acq_read"
  /\ (store = {} \/ TheDoc(store).leaseExpiresAt <= callNow[i])

\* C3: acquireLock() on an absent or expired record, when the read and the
\* write succeed, goes on to write, returns true, leaves a record held by the
\* caller that expires 360 s after the call's now, and sets lockHeld.
C3_AcquireFreeLease ==
  [][\A i \in Inst :
       /\ (SeesFreeLease(i) /\ acquireLockRead(i)
             /\ ~(pc'[i] = "idle" /\ outcome'[i] = "acq_error"))
          => (pc'[i] = "acq_upsert" /\ callNow'[i] = callNow[i])
       /\ (acquireLockUpsert(i) /\ outcome'[i] # "acq_failed")
          => /\ hasLock'[i] /\ lockHeld'[i] /\ pc'[i] = "idle"
             /\ Cardinality(store') = 1
             /\ TheDoc(store').leasedBy = i
             /\ TheDoc(store').leaseExpiresAt = callNow[i] + 360 * 1000
             /\ (lockDoc[i] = {} \/ TheDoc(lockDoc[i]).leaseExpiresAt <= callNow[i])
    ]_vars

\* C3 witness: an expired record of instance 2 was taken over by instance 1 at
\* the very instant it expired.
C3_Witness ==
  /\ Returned(1, "acq_acquired") /\ lockHeld[1] /\ hasLock[1]
  /\ store # {}
  /\ TheDoc(store).leasedBy = 1
  /\ TheDoc(store).createdAt = 0
  /\ TheDoc(store).lastRenewed = 360 * 1000
  /\ TheDoc(store).leaseExpiresAt = 2 * 360 * 1000
  /\ outcome[2] = "acq_acquired"

\* The read of acquireLock() by i is about to see an unexpired record of
\* another instance.
SeesForeignLease(i) ==
  /\ pc[i] = "acq_read"
  /\ store # {}
  /\ TheDoc(store).leasedBy # i
  /\ TheDoc(store).leaseExpiresAt > callNow[i]

\* C4: acquireLock() by a non-holder that reads an unexpired record returns
\* false, leaves the record unchanged and sets lockHeld to false.
C4_AcquireForeignLease ==
  [][\A i \in Inst :
       (SeesForeignLease(i) /\ acquireLockRead(i)
          /\ ~(pc'[i] = "idle" /\ outcome'[i] = "acq_error"))
       => /\ pc'[i] = "idle"
          /\ ~hasLock'[i]
          /\ ~lockHeld'[i]
          /\ store' = store
    ]_vars

\* C4 witness: instance 2, which held the lease before, is refused while
\* instance 1's record is unexpired.
C4_Witness ==
  /\ Returned(2, "acq_other") /\ ~hasLock[2] /\ ~lockHeld[2]
  /\ store # {}
  /\ TheDoc(store).leasedBy = 1
  /\ TheDoc(store).leaseExpiresAt > now
  /\ TheDoc(store).createdAt < TheDoc(store).lastRenewed

\* The read of acquireLock() by i is about to see i's own unexpired record.
SeesOwnLease(i) ==
  /\ pc[i] = "acq_read"
  /\ store # {}
  /\ TheDoc(store).leasedBy = i
  /\ TheDoc(store).leaseExpiresAt > callNow[i]

\* C5: acquireLock() by the recorded holder before expiry returns true with
\* lockHeld = true after the read alone: no write, the record (holder and
\* leaseExpiresAt included) is unchanged, so repeating it changes nothing.
C5_AcquireIdempotent ==
  [][\A i \in Inst :
       (SeesOwnLease(i) /\ acquireLockRead(i)
          /\ ~(pc'[i] = "idle" /\ outcome'[i] = "acq_error"))
       => /\ pc'[i] = "idle"
          /\ hasLock'[i]
          /\ lockHeld'[i]
          /\ ops'[i] = 1
          /\ store' = store
    ]_vars

\* C5 witness: the holder re-acquired after time had passed and the record
\* still carries the expiry of the first acquisition.
C5_Witness ==
  \E i \in Inst :
    /\ Returned(i, "acq_already") /\ hasLock[i] /\ lockHeld[i] /\ ops[i] = 1
    /\ store # {}
    /\ TheDoc(store).leasedBy = i
    /\ TheDoc(store).lastRenewed < now
    /\ TheDoc(store).leaseExpiresAt = TheDoc(store).lastRenewed + 360 * 1000

\* C6: acquireLock() with no container, or with a read that fails otherwise
\* than by not-found, returns true, writes nothing and leaves lockHeld as it
\* was.
C6_FailOpen ==
  [][\A i \in Inst :
       (\/ (acquireLock(i) /\ ~dbReady[i])
        \/ (acquireLockRead(i) /\ pc'[i] = "idle" /\ outcome'[i] = "acq_error"))
       => /\ pc'[i] = "idle"
          /\ hasLock'[i]
          /\ lockHeld'[i] = lockHeld[i]
          /\ store' = store
    ]_vars

\* C6 witness: one instance was let through without a container and the
\* other by a failed read, while neither holds the lease.
C6_Witness ==
  \E i, j \in Inst :
    /\ Returned(i, "acq_nocontainer") /\ hasLock[i] /\ ~lockHeld[i] /\ ops[i] = 0
    /\ Returned(j, "acq_error") /\ hasLock[j] /\ ~lockHeld[j] /\ ops[j] = 1

\* C7: renewLock() by a non-holder changes nothing in the store: with lockHeld
\* false it returns without any store operation; with lockHeld true and a read
\* that finds no record or another holder it writes nothing and clears lockHeld.
C7_RenewNonHolder ==
  [][\A i \in Inst :
       /\ (renewLock(i) /\ ~lockHeld[i])
          => (pc'[i] = "idle" /\ ops'[i] = 0 /\ store' = store /\ ~lockHeld'[i])
       /\ (renewLockRead(i) /\ ~(pc'[i] = "idle" /\ outcome'[i] = "ren_failed")
             /\ (store = {} \/ TheDoc(store).leasedBy # i))
          => (pc'[i] = "idle" /\ store' = store /\ ~lockHeld'[i])
    ]_vars

\* C7 witness: one instance found the record gone, the other found it had
\* lost the lease, and a renewal without lockHeld touched nothing.
C7_Witness ==
  \/ /\ Returned(1, "ren_notfound") /\ ~lockHeld[1] /\ store = {}
     /\ Returned(2, "ren_notheld") /\ ops[2] = 0
  \/ /\ Returned(1, "ren_lost") /\ ~lockHeld[1]
     /\ store # {} /\ TheDoc(store).leasedBy = 2

\* C8: releaseLock() by an instance never deletes a record whose holder at the
\* moment of the delete is another instance.
C8_ReleaseOwnRecordOnly ==
  [][\A i \in Inst :
       (releaseLockDelete(i) /\ store # {} /\ store' = {})
       => TheDoc(store).leasedBy = i
    ]_vars

\* C9: after any releaseLock() has returned the caller no longer believes it
\* holds the lease, so a second releaseLock() is a no-op.
C9_ReleaseClearsHeld ==
  \A i \in Inst :
    (pc[i] = "idle" /\ outcome[i] \in ReleaseOutcomes) => ~lockHeld[i]

\* C10: a single instance on a reliable store that runs acquireLock(), then
\* renewLock() N times, then releaseLock(), with nobody else touching the
\* lease, holds the record through every renewal and in the end leaves no
\* lease record and lockHeld = false.
C10_RoundTrip ==
  /\ (trip.step \in 1..(trip.renewals + 1) /\ pc[1] = "idle")
     => /\ lockHeld[1]
        /\ store # {}
        /\ TheDoc(store).leasedBy = 1
        /\ outcome[1] = IF trip.step = 1 THEN "acq_acquired" ELSE "ren_renewed"
  /\ (trip.step = trip.renewals + 2 /\ pc[1] = "idle")
     => (store = {} /\ ~lockHeld[1])

\* C10 witness: the longest round trip has ended with the record deleted,
\* after the lease period had gone by.
C10_Witness ==
  /\ trip.renewals = MaxRenewals
  /\ trip.step = MaxRenewals + 2
  /\ Returned(1, "rel_released")
  /\ ops[1] = 2
  /\ store = {}
  /\ ~lockHeld[1]
  /\ now >= 360 * 1000

\* The items of the documents a tick holds in dueSearches.
Ids(docs) == {d.id : d \in docs}

\* C11: a tick that holds the lease and found the set D of due items hands the
\* queue exactly one descriptor {searchId, userId, scheduleType "scheduled"}
\* per item of D, and then, T being the time at which the dispatch call
\* returned, writes nextRun = T + intervalHours hours and lastRunAt = T to each
\* item of D and to no other item; it completes when every item of D has been
\* written.
C11_TickDispatch ==
  [][\A i \in Inst :
       /\ (TickEnqueued(i) /\ sched'[i].tpc = "update")
          => /\ hasLock[i]
             /\ \A d \in sched[i].dueSearches :
                  CopiesIn([searchId |-> d.id, userId |-> d.userId,
                            scheduleType |-> "scheduled", dueAt |-> d.nextRun],
                           queue')
                  = 1 + CopiesIn([searchId |-> d.id, userId |-> d.userId,
                                  scheduleType |-> "scheduled",
                                  dueAt |-> d.nextRun], queue)
             /\ BagCardinality(queue')
                  = BagCardinality(queue) + Cardinality(Ids(sched[i].dueSearches))
             /\ sched'[i].tickNow = now
             /\ sched'[i].updating = Ids(sched[i].dueSearches)
             /\ searches' = searches
       /\ \A s \in Search :
            (TickUpdateSettle(i, s) /\ sched'[i].tpc \in {"update", "renew"})
            => /\ s \in Ids(sched[i].dueSearches)
               /\ searches'[s].nextRun
                    = sched[i].tickNow + searches[s].intervalHours * 3600000
               /\ searches'[s].lastRunAt = sched[i].tickNow
               /\ \A r \in Search \ {s} : searches'[r] = searches[r]
               /\ queue' = queue
               /\ (sched'[i].tpc = "renew") = (sched[i].updating = {s})
               /\ (sched'[i].tpc = "update")
                    => (sched'[i].updating = sched[i].updating \ {s})
    ]_vars

\* C11 witness: one tick, at a time T after the start of the run, found both
\* items due, dispatched one job for each and rescheduled both from T.
C11_Witness ==
  /\ searches[1].lastRunAt > 0
  /\ searches[2].lastRunAt = searches[1].lastRunAt
  /\ searches[1].nextRun = searches[1].lastRunAt + 6 * 3600000
  /\ searches[2].nextRun = searches[1].lastRunAt + 12 * 3600000
  /\ BagCardinality(queue) = 2
  /\ \E i \in Inst : sched[i].lastTickTime >= searches[1].lastRunAt
                       /\ sched[i].tpc = "none"

\* Item s has a scheduled job descriptor in the queue.
Dispatched(s) ==
  \E j \in BagToSet(queue) : j.searchId = s /\ j.scheduleType = "scheduled"

\* C12: on one instance, an item that a scheduled tick dispatched at time T is
\* not dispatched by a scheduled tick again before T + intervalHours hours.
\* The whole run is shorter than one hour, so every dispatch of an item that
\* already has a job in the queue comes before T + intervalHours.
C12_NoRedispatch ==
  [][\A t \in Thread, s \in Search :
       (/\ TickEnqueued(t) /\ sched'[t].tpc = "update"
        /\ s \in Ids(sched[t].dueSearches)
        /\ MaxTime < searches[s].intervalHours * MsPerHour)
       => ~Dispatched(s)
    ]_vars

\* C16: no two ticks of the same scheduler instance are in progress at the
\* same time, however long the store and queue calls of a tick take.
C16_NoOverlappingTicks ==
  \A t, u \in Thread :
    (t # u /\ Owner(t) = Owner(u)) => ~(InTick(t) /\ InTick(u))

\* No item of the store is due at time t.
NothingDue(t) ==
  \A s \in DOMAIN searches : ~searches[s].enabled \/ searches[s].nextRun > t

\* C13: a tick that holds the lease and whose due-item query returns nothing
\* makes no dispatch call and no work-item update, sets consecutiveErrors to 0,
\* stamps lastTickTime, calls renewLock() (whose read of the lease record is
\* issued) and does nothing else before it settles.
C13_NoneDue ==
  [][\A i \in Inst :
       /\ (/\ TickQueryDone(i)
           /\ hasLock[i] /\ lockHeld[i]
           /\ NothingDue(sched[i].queryNow)
           /\ sched'[i].tpc \notin {"none", "release"})
          => /\ queue' = queue
             /\ searches' = searches
             /\ orphans' = orphans
             /\ sched'[i].consecutiveErrors = 0
             /\ sched'[i].lastTickTime = now
             /\ sched'[i].tpc = "renew"
             /\ pc'[i] = "ren_read" /\ callNow'[i] = now
       /\ (sched[i].tpc = "renew" /\ (RenewIo(i) \/ TickSettle(i)))
          => (queue' = queue /\ searches' = searches
                /\ sched'[i].consecutiveErrors = 0)
    ]_vars

\* C13 witness: a tick that started after every item had been dispatched and
\* rescheduled, in a run where some I/O operation had failed before, found
\* nothing due and is renewing the lease.
C13_Witness ==
  /\ sched[1].tpc = "renew"
  /\ \A s \in Search : /\ searches[s].lastRunAt # Null
                        /\ searches[s].lastRunAt < sched[1].tickStartTime
  /\ NothingDue(now)
  /\ sched[1].consecutiveErrors = 0
  /\ sched[1].lastTickTime = now
  /\ pc[1] = "ren_read" /\ lockHeld[1]
  /\ faults < MaxFaults

\* C14: when a tick() of a running scheduler completes without having thrown
\* (it returns after acquireLock() or after its final renewLock(), not through
\* the catch block), consecutiveErrors is 0.
C14_ResetOnCompletion ==
  [][\A i \in Inst :
       (/\ sched[i].isRunning
        /\ sched[i].tpc \in {"acquire", "renew"}
        /\ sched'[i].tpc = "none")
       => sched'[i].consecutiveErrors = 0
    ]_vars

\* The step ends a tick of activation i by its catch block: the tick leaves
\* the query, the dispatch or the updates without going on.
Throws(i) ==
  /\ sched[i].tpc \in {"query", "enqueue", "update"}
  /\ sched'[i].tpc \in {"none", "release"}

\* C15: consecutiveErrors counts the ticks that have thrown since the last
\* successful tick; the tick that brings the count to 10 sets isRunning to
\* false, clears the timer and calls releaseLock(); a tick that brings it to 9
\* or less leaves the scheduler running with its timer armed.
C15_SelfDisable ==
  [][\A i \in Inst :
       /\ Throws(i)
          => /\ sched'[i].consecutiveErrors = sched[i].consecutiveErrors + 1
             /\ IF sched[i].consecutiveErrors + 1 = 10
                  THEN /\ ~sched'[i].isRunning
                       /\ ~sched'[i].intervalId
                       /\ sched'[i].tpc = "release"
                       /\ \/ pc'[i] = "rel_read"
                          \/ (pc'[i] = "idle" /\ outcome'[i] = "rel_notheld")
                  ELSE /\ sched[i].consecutiveErrors + 1 <= 9
                       /\ sched'[i].isRunning
                       /\ sched'[i].intervalId
                       /\ sched'[i].tpc = "none"
                       /\ pc'[i] = pc[i] /\ outcome'[i] = outcome[i]
       /\ (sched[i].tpc \in {"query", "update"} /\ sched'[i].tpc = "renew")
          => sched'[i].consecutiveErrors = 0
       /\ (sched[i].tpc = "acquire" /\ ~Throws(i))
          => sched'[i].consecutiveErrors = sched[i].consecutiveErrors
    ]_vars

\* C15 witness: the tenth tick in a row has thrown; the scheduler is disabled
\* and its releaseLock() has deleted the lease record.
C15_Witness ==
  /\ sched[1].consecutiveErrors = 10
  /\ ~sched[1].isRunning
  /\ ~sched[1].intervalId
  /\ sched[1].tpc = "none"
  /\ Returned(1, "rel_released")
  /\ store = {}
  /\ ~lockHeld[1]

\* The item the manual run names exists and belongs to the user it names.
ManualItemOwned ==
  /\ manual.searchId \in DOMAIN searches
  /\ searches[manual.searchId].userId = manual.userId

\* A step of triggerManualRun()
ManualStep ==
  \/ \E id \in {0} \cup Search, userId \in User : triggerManualRun(id, userId)
  \/ ManualGetSearch
  \/ ManualEnqueued

\* C17: triggerManualRun(searchId, userId) for an item that does not exist or
\* is not owned by userId throws 'Search not found' as soon as its lookup
\* returns, and enqueues no job: no enqueueJob is ever issued for such an item.
C17_ManualNotFound ==
  [][/\ (ManualGetSearch /\ ~ManualItemOwned /\ manual'.result # "store_error")
        => /\ manual'.mpc = "none"
           /\ manual'.result = "not_found"
           /\ queue' = queue
     /\ (manual'.mpc = "enqueue" \/ manual.mpc = "enqueue") => ManualItemOwned
     /\ (ManualStep /\ ~ManualItemOwned) => queue' = queue
     /\ \A j \in BagToSet(queue') :
          (j.scheduleType = "manual")
          => (j.searchId \in Search /\ searches[j.searchId].userId = j.userId)
    ]_vars

\* C17 witness: a manual run of an item that exists, asked for by a user who
\* does not own it, has failed with not-found and the queue holds no manual
\* job.
C17_Witness ==
  /\ manual.mpc = "none"
  /\ manual.result = "not_found"
  /\ manual.searchId \in Search
  /\ manual.userId # searches[manual.searchId].userId
  /\ \A j \in BagToSet(queue) : j.scheduleType # "manual"

\* C18: no step of triggerManualRun(), in any state of the scheduler, changes
\* an item (nextRun and lastRunAt included), reads or writes the lease record
\* or changes the scheduler object (isRunning, consecutiveErrors, lastTickTime
\* included); it changes the queue only when it succeeds, by adding exactly
\* one descriptor {searchId, userId, scheduleType "manual"}.
C18_ManualFrame ==
  [][ManualStep
       => /\ searches' = searches
          /\ store' = store
          /\ pc' = pc /\ ops' = ops /\ lockHeld' = lockHeld
          /\ sched' = sched
          /\ (manual'.result = "ok" /\ manual'.mpc = "none")
             => /\ CopiesIn([searchId |-> manual.searchId,
                             userId |-> manual.userId,
                             scheduleType |-> "manual"], queue')
                    = 1 + CopiesIn([searchId |-> manual.searchId,
                                    userId |-> manual.userId,
                                    scheduleType |-> "manual"], queue)
                /\ BagCardinality(queue') = BagCardinality(queue) + 1
          /\ ~(manual'.result = "ok" /\ manual'.mpc = "none")
             => queue' = queue
    ]_vars

\* C18 witness: a manual run of item 2 has succeeded while a tick that found
\* the item due was waiting for its dispatch call; the item is untouched.
C18_Witness ==
  /\ manual.mpc = "none" /\ manual.result = "ok" /\ manual.searchId = 2
  /\ CopiesIn([searchId |-> 2, userId |-> 1, scheduleType |-> "manual"], queue) = 1
  /\ sched[1].isRunning
  /\ sched[1].tpc = "enqueue"
  /\ 2 \in Ids(sched[1].dueSearches)
  /\ searches[2].lastRunAt = Null
  /\ searches[2].nextRun = ClockStep

\* C19: a tick whose acquireLock() returned false ends there: it issues no
\* due-item query, no dispatch, no item update and no lease operation, and
\* leaves consecutiveErrors, lastTickTime and isRunning as they were.
C19_SkippedTick ==
  [][\A i \in Inst :
       (TickAcquired(i) /\ ~hasLock[i])
       => /\ sched'[i].tpc = "none"
          /\ sched'[i].consecutiveErrors = sched[i].consecutiveErrors
          /\ sched'[i].lastTickTime = sched[i].lastTickTime
          /\ sched'[i].isRunning = sched[i].isRunning
          /\ queue' = queue
          /\ searches' = searches
          /\ orphans' = orphans
          /\ store' = store
          /\ pc'[i] = "idle" /\ ops'[i] = ops[i] /\ outcome'[i] = outcome[i]
    ]_vars

\* C19 witness: after a tick that threw, a tick whose acquireLock() failed to
\* write the lease was skipped: nothing was ever dispatched and the error
\* count is still 1.
C19_Witness ==
  /\ Returned(1, "acq_failed") /\ ~hasLock[1]
  /\ sched[1].tpc = "none" /\ sched[1].spc = "none"
  /\ sched[1].isRunning /\ sched[1].intervalId
  /\ sched[1].consecutiveErrors = 1
  /\ sched[1].lastTickTime = Null
  /\ queue = EmptyBag
  /\ \A s \in Search : searches[s].lastRunAt = Null

\* Item s is enabled, due and has never been dispatched.
Waiting(s) ==
  searches[s].enabled /\ searches[s].nextRun <= now /\ ~Dispatched(s)

\* C20: while the scheduler keeps ticking and its ticks succeed, every enabled
\* item that is due is eventually dispatched by a scheduled tick, also when
\* more than 50 items are due at once: whenever items are waiting, a state
\* follows in which none of them is (an item stays due until it has been
\* dispatched and rescheduled); and the nextRun a tick writes to an item it
\* dispatched is later than the nextRun of every item still waiting.
C20_NoStarvation ==
  /\ (\E s \in PressureItems : Waiting(s))
       ~> (\A s \in PressureItems : ~Waiting(s))
  /\ [][\A i \in Inst :
          TickUpdateAll(i)
          => \A d \in sched[i].updating, w \in PressureItems :
               Waiting(w) => searches'[d].nextRun > searches'[w].nextRun
       ]_vars

\* C20 witness: a query found more than 50 items due and returned 50; the
\* item it left waiting was dispatched by a later tick, and every item has
\* been dispatched exactly once.
C20_Witness ==
  /\ \A s \in PressureItems : Dispatched(s)
  /\ BagCardinality(queue) = Cardinality(PressureItems)
  /\ Cardinality({s \in PressureItems :
                    searches[s].lastRunAt = searches[2].lastRunAt}) = 50
  /\ \E s \in PressureItems : searches[s].lastRunAt > searches[2].lastRunAt

\* Instance i is the running holder of the lease: the record names it, it
\* believes it holds the lease and its scheduler is running.
RunningHolder(i) ==
  /\ store # {}
  /\ TheDoc(store).leasedBy = i
  /\ lockHeld[i]
  /\ sched[i].isRunning

\* C21: while the holder ticks every 300 s, each of its ticks goes through to
\* its final renewLock() and the store is reachable, the lease record is
\* unexpired whenever the read of another instance's acquireLock() returns
\* (so that acquireLock() goes on to no write).
C21_HealthyHolderKeepsLease ==
  [][\A i, j \in Inst :
       (i # j /\ RunningHolder(i) /\ acquireLockRead(j))
       => /\ TheDoc(store).leaseExpiresAt > callNow[j]
          /\ pc'[j] = "idle"
    ]_vars

\* C22: start() on a scheduler that is already running, or with scheduling
\* disabled by configuration, initializes nothing, runs no tick, arms no timer
\* and leaves isRunning, consecutiveErrors, the lease and everything else as
\* they were.
C22_StartNoOp ==
  [][\A i \in Inst :
       (StartCall(i) /\ (sched[i].isRunning \/ ~sched[i].enabled))
       => /\ sched' = sched
          /\ dbReady' = dbReady
          /\ store' = store /\ lockHeld' = lockHeld
          /\ pc' = pc /\ ops' = ops
          /\ queue' = queue /\ searches' = searches
    ]_vars

\* C22 witness: at the end of the run a scheduler disabled by configuration
\* is as it was constructed, and nothing has been initialized.
C22_Witness ==
  /\ ~sched[1].enabled
  /\ now = MaxTime
  /\ sched[1] = NewScheduler(FALSE)
  /\ ~dbReady[1]
  /\ store = {}
  /\ queue = EmptyBag

\* C23: when an initialize() call of start() fails, start() throws, isRunning
\* is false afterwards, no tick has run (no lease operation, no query, no
\* dispatch, no update, lastTickTime as before) and no timer is armed; the
\* scheduler stays like this until start() is called again.
C23_StartInitFailure ==
  [][\A i \in Inst :
       /\ (StartInit(i) /\ faults' # faults)
          => /\ sched'[i].startThrew
             /\ sched'[i].spc = "none" /\ sched'[i].tpc = "none"
             /\ ~sched'[i].isRunning
             /\ ~sched'[i].intervalId
             /\ sched'[i].lastTickTime = sched[i].lastTickTime
             /\ pc' = pc /\ ops' = ops /\ store' = store
             /\ queue' = queue /\ searches' = searches
       /\ sched'[i].startThrew
          => (~sched'[i].isRunning /\ ~sched'[i].intervalId
                /\ sched'[i].tpc = "none")
    ]_vars

\* C23 witness: the dispatcher failed to initialize after the store had been
\* initialized; start() has thrown, and later in the run the scheduler is
\* still not running, has no timer and has not ticked.
C23_Witness ==
  /\ sched[1].startThrew
  /\ dbReady[1]
  /\ ~sched[1].busOpen
  /\ ~sched[1].isRunning /\ ~sched[1].intervalId
  /\ sched[1].lastTickTime = Null
  /\ now > 0
  /\ store = {} /\ queue = EmptyBag

\* The store holds a lease record that names instance i as its holder.
RecordOf(i) == store # {} /\ TheDoc(store).leasedBy = i

\* What C24 says of stop() apart from the lease record: a stop() of a
\* scheduler that is not running changes nothing; a stop() of a running
\* scheduler with no tick in flight sets isRunning to false and clears the
\* timer at once, calls releaseLock() and close(), and returns normally
\* whether they failed or not, with the dispatcher closed when close()
\* succeeded.
StopFrame(i) ==
  /\ (Stop(i) /\ ~sched[i].isRunning)
     => UNCHANGED vars
  /\ (Stop(i) /\ sched[i].isRunning)
     => /\ ~sched'[i].isRunning /\ ~sched'[i].intervalId
        /\ sched'[i].tpc = "none"
  /\ StopClose(i)
     => /\ sched'[i].spc = "none"
        /\ ~sched'[i].isRunning /\ ~sched'[i].intervalId
        /\ sched'[i].tpc = "none"
        /\ outcome[i] \in ReleaseOutcomes
        /\ (faults' = faults) => ~sched'[i].busOpen

\* C24 as stated: stop() of a running scheduler with no tick in flight ends
\* with no lease record of this instance left in the store, unless the read
\* or the delete of its releaseLock() failed.
C24_StopAsStated ==
  [][\A i \in Inst :
       /\ StopFrame(i)
       /\ (StopClose(i) /\ outcome[i] # "rel_failed") => ~RecordOf(i)
    ]_vars

\* C24: stop() is a no-op when the scheduler is not running; on a running
\* scheduler with no tick in flight it ends with isRunning = false, no timer
\* armed, the dispatcher closed when close() succeeded and, when the instance
\* believed it held the lease (lockHeld) and the read and the delete of
\* releaseLock() succeeded, no lease record of this instance in the store;
\* with lockHeld false its releaseLock() touches nothing.  It never raises.
C24_Stop ==
  [][\A i \in Inst :
       /\ StopFrame(i)
       /\ (StopClose(i) /\ outcome[i] \in {"rel_released", "rel_other"})
          => ~RecordOf(i)
       /\ (Stop(i) /\ sched[i].isRunning /\ ~lockHeld[i])
          => (store' = store /\ ops'[i] = 0 /\ outcome'[i] = "rel_notheld")
       /\ (Stop(i) /\ sched[i].isRunning /\ lockHeld[i])
          => pc'[i] = "rel_read"
    ]_vars

\* C24 witness: a scheduler that had ticked and held the lease has been
\* stopped: its record is deleted, the dispatcher is closed, no timer is armed.
C24_Witness ==
  /\ sched[1].spc = "none" /\ sched[1].tpc = "none"
  /\ ~sched[1].isRunning /\ ~sched[1].intervalId
  /\ ~sched[1].busOpen
  /\ sched[1].lastTickTime # Null
  /\ Returned(1, "rel_released")
  /\ store = {}
  /\ ~lockHeld[1]

\* C25: a tick whose due-item query, dispatch or item update throws adds
\* exactly 1 to consecutiveErrors and settles without throwing (a start()
\* that awaits it goes on to arm the timer and does not throw); while the new
\* count is below 10 the scheduler is still running, its timer is armed and
\* no lease operation is issued.
C25_TickError ==
  [][\A i \in Inst :
       Throws(i)
       => /\ sched'[i].consecutiveErrors = sched[i].consecutiveErrors + 1
          /\ ~sched'[i].startThrew
          /\ (sched'[i].consecutiveErrors < 10)
             => /\ sched'[i].tpc = "none" /\ sched'[i].spc = "none"
                /\ sched'[i].isRunning = sched[i].isRunning
                /\ sched'[i].isRunning
                /\ sched'[i].intervalId
                /\ pc' = pc /\ store' = store /\ lockHeld' = lockHeld
    ]_vars

\* C25 witness: nine ticks in a row have thrown, at least one of them at the
\* item update after a dispatch that went through; the scheduler is running
\* with its timer armed.
C25_Witness ==
  /\ sched[1].consecutiveErrors = 9
  /\ sched[1].isRunning /\ sched[1].intervalId
  /\ sched[1].tpc = "none" /\ sched[1].spc = "none"
  /\ ~sched[1].startThrew
  /\ BagCardinality(queue) >= 1
  /\ searches[1].lastRunAt = Null

\* The items that are due at time t: enabled, with nextRun <= t.
DueAt(t) ==
  {s \in DOMAIN searches : searches[s].enabled /\ searches[s].nextRun <= t}

\* C26: the set of items a tick takes from its due-item query (and then
\* dispatches) holds only enabled items with nextRun <= the time of the
\* query, holds at most 50 items, is the whole set of due items when at most
\* 50 are due, and otherwise is 50 of them such that no due item left out has
\* a nextRun smaller than one selected; the dispatch hands over one
\* descriptor for each selected item.
C26_DueSelection ==
  [][\A i \in Inst :
       /\ (TickQueryDone(i) /\ sched'[i].tpc = "enqueue")
          => LET sel == Ids(sched'[i].dueSearches)
                 due == DueAt(sched[i].queryNow)
             IN /\ sel \subseteq due
                /\ sched'[i].dueSearches = {searches[s] : s \in sel}
                /\ Cardinality(sel) <= 50
                /\ (Cardinality(due) <= 50) => sel = due
                /\ (Cardinality(due) > 50)
                   => /\ Cardinality(sel) = 50
                      /\ \A d \in due \ sel, e \in sel :
                           searches[e].nextRun <= searches[d].nextRun
       /\ (TickEnqueued(i) /\ sched'[i].tpc = "update")
          => /\ BagCardinality(queue')
                  = BagCardinality(queue) + Cardinality(sched[i].dueSearches)
             /\ \A d \in sched[i].dueSearches : BagIn(Job(d), queue')
    ]_vars

\* C26 witness: a query at which 51 items were due has returned 50 of them:
\* not the disabled item, and one of the two items that tie for the last place.
C26_Witness ==
  /\ sched[1].tpc = "enqueue"
  /\ Cardinality(DueAt(sched[1].queryNow)) = 51
  /\ Cardinality(sched[1].dueSearches) = 50
  /\ 1 \notin Ids(sched[1].dueSearches)
  /\ 51 \in Ids(sched[1].dueSearches)
  /\ 52 \notin Ids(sched[1].dueSearches)

\* C27: a tick writes nextRun and lastRunAt of an item only after the batch
\* with that item's descriptor has been enqueued; when enqueueBatch fails the
\* tick issues no update and no item changes; an update that fails leaves its
\* item as it was, and when a tick ends at a failed update every item it
\* selected whose nextRun has not been advanced still has its old nextRun and
\* is due (enabled, nextRun <= now) for the next query.
C27_NoLostWork ==
  [][/\ \A s \in DOMAIN searches :
          (searches'[s] # searches[s])
          => /\ Dispatched(s)
             /\ \E j \in BagToSet(queue) :
                  /\ j.searchId = s /\ j.scheduleType = "scheduled"
                  /\ j.dueAt <= searches[s].nextRun
     /\ \A i \in Inst :
          /\ (sched'[i].tpc = "update")
             => \A d \in sched'[i].dueSearches : BagIn(Job(d), queue')
          /\ (TickEnqueued(i) /\ faults' # faults)
             => /\ searches' = searches /\ queue' = queue
                /\ orphans' = orphans
                /\ sched'[i].updating = {}
                /\ sched'[i].tpc \in {"none", "release"}
          /\ \A s \in DOMAIN searches :
               (TickUpdateSettle(i, s) /\ faults' # faults)
               => /\ searches' = searches
                  /\ \A d \in sched[i].dueSearches :
                       \/ searches'[d.id].nextRun > d.nextRun
                       \/ /\ searches'[d.id].nextRun = d.nextRun
                          /\ searches'[d.id].enabled
                          /\ searches'[d.id].nextRun <= now'
     /\ \A u \in orphans :
          (OrphanSettle(u) /\ faults' # faults) => searches' = searches
    ]_vars

\* C27 witness: a tick dispatched both items and then failed at the update
\* of item 2; item 1 was rescheduled, item 2 kept its nextRun and the next
\* tick has dispatched it again.
C27_Witness ==
  /\ CopiesIn([searchId |-> 1, userId |-> 1, scheduleType |-> "scheduled",
               dueAt |-> 0], queue) = 1
  /\ CopiesIn([searchId |-> 2, userId |-> 1, scheduleType |-> "scheduled",
               dueAt |-> ClockStep], queue) = 2
  /\ searches[1].lastRunAt # Null
  /\ searches[2].lastRunAt > searches[1].lastRunAt
  /\ faults < MaxFaults
  /\ sched[1].tpc = "none"

\* C28: the write of a renewLock() never replaces a record that names another
\* instance as holder (a record that instance wrote after the renewLock()
\* had read its own): when the upsert of renewLock() by i succeeds, the
\* record in the store is not another instance's.
C28_RenewNeverOverwrites ==
  [][\A i \in Inst :
       (renewLockUpsert(i) /\ outcome'[i] = "ren_renewed")
       => ~(store # {} /\ TheDoc(store).leasedBy # i)
    ]_vars

\* C29: renewLock() by an instance with lockHeld = true whose read shows
\* itself as holder goes on to write the record it read with leaseExpiresAt
\* = the call's now + 360 s and lastRenewed = the call's now, holder and
\* createdAt as read; when the write succeeds that record is in the store and
\* lockHeld is still true.
C29_RenewByHolder ==
  [][\A i \in Inst :
       /\ (/\ renewLockRead(i)
           /\ lockHeld[i] /\ store # {} /\ TheDoc(store).leasedBy = i
           /\ ~(pc'[i] = "idle" /\ outcome'[i] = "ren_failed"))
          => /\ pc'[i] = "ren_upsert"
             /\ lockHeld'[i]
             /\ store' = store
             /\ Cardinality(lockDoc'[i]) = 1
             /\ TheDoc(lockDoc'[i]).leasedBy = i
             /\ TheDoc(lockDoc'[i]).createdAt = TheDoc(store).createdAt
             /\ TheDoc(lockDoc'[i]).leaseExpiresAt = callNow[i] + 360 * 1000
             /\ TheDoc(lockDoc'[i]).lastRenewed = callNow[i]
       /\ (renewLockUpsert(i) /\ outcome'[i] = "ren_renewed")
          => /\ store' = lockDoc[i]
             /\ TheDoc(store').leasedBy = i
             /\ TheDoc(store').leaseExpiresAt = callNow[i] + 360 * 1000
             /\ TheDoc(store').lastRenewed = callNow[i]
             /\ (store # {} /\ TheDoc(store).leasedBy = i)
                => TheDoc(store').createdAt = TheDoc(store).createdAt
             /\ lockHeld'[i]
             /\ pc'[i] = "idle"
    ]_vars

\* C29 witness: the holder has renewed, after its first lease period had run
\* out, a record it created at time 0.
C29_Witness ==
  /\ Returned(1, "ren_renewed") /\ lockHeld[1] /\ ops[1] = 2
  /\ store # {}
  /\ TheDoc(store).leasedBy = 1
  /\ TheDoc(store).createdAt = 0
  /\ TheDoc(store).lastRenewed >= 360 * 1000
  /\ TheDoc(store).leaseExpiresAt = TheDoc(store).lastRenewed + 360 * 1000
  /\ outcome[2] = "none"

\* C30: when the read of acquireLock() found no record or an expired one and
\* the write then fails, acquireLock() returns false (it does not throw and
\* does not take the fail-open path), sets lockHeld to false and leaves the
\* store as it was.
C30_AcquireWriteFailure ==
  [][\A i \in Inst :
       (acquireLockUpsert(i) /\ outcome'[i] # "acq_acquired")
       => /\ (lockDoc[i] = {}
                \/ TheDoc(lockDoc[i]).leaseExpiresAt <= callNow[i])
          /\ pc'[i] = "idle"
          /\ outcome'[i] = "acq_failed"
          /\ ~hasLock'[i]
          /\ ~lockHeld'[i]
          /\ store' = store
          /\ ops'[i] = 2
    ]_vars

\* C30 witness: instance 1 found a renewed record of instance 2 expired and
\* failed to write its own: it was told false, does not believe it holds the
\* lease, and the expired record is still in the store.
C30_Witness ==
  /\ Returned(1, "acq_failed") /\ ~hasLock[1] /\ ~lockHeld[1] /\ ops[1] = 2
  /\ store # {}
  /\ TheDoc(store).leasedBy = 2
  /\ TheDoc(store).leaseExpiresAt <= now
  /\ TheDoc(store).createdAt < TheDoc(store).lastRenewed

\* The lease is free: there is no record, or the record has expired.
LeaseFree == store = {} \/ TheDoc(store).leaseExpiresAt <= now

\* Instance i has stopped renewing: it was started, and it has been stopped
\* or killed since.
Stopped(i) == dbReady[i] /\ ~sched[i].isRunning /\ sched[i].spc \in {"none", "dead"}

\* C31: failover.  Whenever instance 1 has stopped renewing and the lease is
\* free (the record was deleted, or it has expired) while instance 2 is
\* running, a state follows in which instance 2 is the running holder of an
\* unexpired lease and no due item is left waiting.
C31_Failover ==
  (Stopped(1) /\ LeaseFree /\ sched[2].isRunning)
    ~> (/\ RunningHolder(2) /\ ~LeaseFree
        /\ \A s \in DOMAIN searches : ~Waiting(s))

\* C31 witness: instance 1 was killed while it held the lease; instance 2
\* took the expired record over (the record keeps the createdAt of instance
\* 1), holds it and has dispatched the item.
C31_Witness ==
  /\ sched[1].spc = "dead"
  /\ RunningHolder(2) /\ ~LeaseFree
  /\ TheDoc(store).createdAt < TheDoc(store).lastRenewed
  /\ TheDoc(store).createdAt < searches[1].nextRun - 6 * MsPerHour
  /\ Dispatched(1)

\* C32: a tick that begins while isRunning is false does nothing: the timer
\* callback that finds isRunning false starts no lock call, leaves the lease
\* record, the items, the queue and the pending updates as they are, and
\* changes neither consecutiveErrors nor lastTickTime nor isRunning; no tick
\* is in progress after it.
C32_TickNotRunning ==
  [][\A i \in Inst :
       (TimerFire(i) /\ ~sched[i].isRunning)
       => /\ UNCHANGED <<lockVars, orphans, searches, queue>>
          /\ sched'[i].tpc = "none"
          /\ sched'[i].consecutiveErrors = sched[i].consecutiveErrors
          /\ sched'[i].lastTickTime = sched[i].lastTickTime
          /\ sched'[i].isRunning = sched[i].isRunning
    ]_vars

\* C32 witness: stop() came during the first tick of start(), which armed
\* the timer when the tick had settled; the timer has fired and tick()
\* returned at its isRunning check.
C32_Witness ==
  /\ sched[1].skippedTick
  /\ ~sched[1].isRunning
  /\ sched[1].timers > 0
  /\ sched[1].tpc = "none" /\ pc[1] = "idle"

\* The scheduler of instance i has disabled itself at the error threshold
\* and start() has not been called since.
Disabled(i) ==
  /\ ~sched[i].isRunning
  /\ sched[i].consecutiveErrors >= maxConsecutiveErrors
  /\ sched[i].spc = "none"

\* C33: once the scheduler has disabled itself at the error threshold, and
\* until start() is called, isRunning stays false and no job is dispatched
\* by that instance; the start() that then initializes resets
\* consecutiveErrors to 0 and sets isRunning.
C33_DisabledUntilRestart ==
  [][\A i \in Inst :
       /\ (Disabled(i) /\ ~StartCall(i))
            => (~sched'[i].isRunning /\ queue' = queue)
       /\ (StartInit(i) /\ sched'[i].spc = "tick")
            => (sched'[i].isRunning /\ sched'[i].consecutiveErrors = 0)
    ]_vars

\* C34: in every reachable state the error counter of each scheduler is
\* between 0 and the threshold.
C34_CounterBounded ==
  \A i \in Inst :
    /\ sched[i].consecutiveErrors >= 0
    /\ sched[i].consecutiveErrors <= maxConsecutiveErrors

\* C35: on each scheduler at most one interval timer is armed, and none is
\* armed while isRunning is false.
C35_OneTimer ==
  \A i \in Inst :
    /\ sched[i].timers <= 1
    /\ ~sched[i].isRunning => sched[i].timers = 0

\* Nothing of instance i is in progress: no start(), stop() or tick() on
\* any of its activations.
Settled(i) ==
  \A t \in Thread :
    Owner(t) = i => sched[t].spc = "none" /\ sched[t].tpc = "none" /\ pc[t] = "idle"

\* C36: once stop() has returned and every tick that was in flight during it
\* has settled, the store holds no unexpired lease record that names the
\* instance as holder.
C36_NoLeaseAfterStop ==
  \A i \in Inst :
    (Settled(i) /\ ~sched[i].isRunning)
    => ~(RecordOf(i) /\ TheDoc(store).leaseExpiresAt > now)

\* The acquireLock() of the tick in progress on activation i wrote the lease
\* record: it found none, or an expired one, and set a new expiry.
WroteLease(i) == pc[i] = "idle" /\ outcome[i] = "acq_acquired"

\* The tick in progress on activation i has advanced the expiry of the lease:
\* its acquireLock() found an expired record and wrote it anew (the new
\* record keeps the createdAt of the old one).
AdvancedLease(i) ==
  /\ WroteLease(i)
  /\ RecordOf(Owner(i))
  /\ TheDoc(store).createdAt < TheDoc(store).lastRenewed

\* C37 as stated: a tick that throws after acquireLock() has not stamped
\* lastTickTime, calls no renewLock(), and has not advanced the lease expiry.
C37_AsStated ==
  [][\A i \in Inst :
       Throws(i)
       => /\ sched'[i].lastTickTime = sched[i].lastTickTime
          /\ pc'[i] \notin {"ren_read", "ren_upsert"}
          /\ store' = store
          /\ ~AdvancedLease(i)
    ]_vars

\* C37: a tick that throws after acquireLock() has returned leaves
\* lastTickTime and the lease record as they are and calls no renewLock();
\* lastTickTime is stamped, and renewLock() is called, only by a tick that
\* has come through (it resets consecutiveErrors and then settles without
\* throwing); the lease record is written by the upserts of acquireLock()
\* and renewLock() only.
C37_ThrowingTick ==
  [][\A i \in Inst :
       /\ Throws(i)
          => /\ sched'[i].lastTickTime = sched[i].lastTickTime
             /\ pc'[i] \notin {"ren_read", "ren_upsert"}
             /\ store' = store
       /\ (sched'[i].lastTickTime # sched[i].lastTickTime
           \/ (sched[i].tpc # "renew" /\ sched'[i].tpc = "renew"))
          => /\ sched[i].tpc \in {"query", "update"}
             /\ sched'[i].tpc = "renew"
             /\ sched'[i].lastTickTime = now
             /\ sched'[i].consecutiveErrors = 0
       /\ (pc'[i] \in {"ren_read", "ren_upsert"}) => sched'[i].tpc = "renew"
       /\ (sched[i].tpc = "renew")
          => /\ sched'[i].tpc \in {"renew", "none"}
             /\ sched'[i].consecutiveErrors = sched[i].consecutiveErrors
       /\ (store' # store /\ store' # {})
          => \E t \in Thread : acquireLockUpsert(t) \/ renewLockUpsert(t)
    ]_vars

\* C37 witness: a tick of instance 1 came through at time 0; a later tick
\* found the record expired, wrote it anew, and threw: the record carries
\* the time of the failed tick, lastTickTime that of the first.
C37_Witness ==
  /\ sched[1].tpc = "none" /\ sched[1].spc = "none"
  /\ sched[1].consecutiveErrors = 1
  /\ WroteLease(1)
  /\ RecordOf(1)
  /\ sched[1].lastTickTime >= 0
  /\ sched[1].lastTickTime < TheDoc(store).lastRenewed
  /\ TheDoc(store).createdAt < TheDoc(store).lastRenewed

\* The step is a write of the lease record by activation t that went
\* through: the upsert of its acquireLock() or of its renewLock().
LeaseWrite(t) ==
  \/ acquireLockUpsert(t) /\ outcome'[t] = "acq_acquired"
  \/ renewLockUpsert(t) /\ outcome'[t] = "ren_renewed"

\* C38: whenever the lease record exists, its leaseExpiresAt is its
\* lastRenewed plus 360 s; every write of the record leaves it naming the
\* writer's instance as holder, with the writer's `now` as lastRenewed and
\* now + 360 s as expiry; and the record changes to another record by such
\* a write only.
C38_RecordShape ==
  /\ [](store # {} =>
          TheDoc(store).leaseExpiresAt
            = TheDoc(store).lastRenewed + lockDurationSeconds * 1000)
  /\ [][\A t \in Thread :
          LeaseWrite(t)
          => /\ store' # {}
             /\ TheDoc(store').leasedBy = Owner(t)
             /\ TheDoc(store').lastRenewed = callNow[t]
             /\ TheDoc(store').leaseExpiresAt
                  = callNow[t] + lockDurationSeconds * 1000
      ]_vars
  /\ [][(store' # store /\ store' # {})
          => \E t \in Thread : LeaseWrite(t)
      ]_vars

\* C38 witness: instance 2 wrote the record over one of instance 1 and then
\* renewed it at a later time.
C38_Witness ==
  /\ RecordOf(2)
  /\ Returned(2, "ren_renewed")
  /\ TheDoc(store).createdAt < TheDoc(store).lastRenewed
  /\ TheDoc(store).leaseExpiresAt = now + lockDurationSeconds * 1000
  /\ outcome[1] = "acq_acquired"

====
